---- MODULE Spec2Model ----
(***************************************************************************)
(* Standings, records and playoff seeding of py/games.py over the team     *)
(* catalog of py/teams.py.                                                 *)
(*                                                                         *)
(* A state is a Standings object while its constructor walks the list of   *)
(* games: `games' is the part of the list read so far, `records' the       *)
(* Record of every team.  playoff_seeding and                              *)
(* determine_finals_home_court_advantage are pure in the records and are   *)
(* operators evaluated on every state.                                     *)
(*                                                                         *)
(* Python values are modelled by what the interpreter does with them:      *)
(* a call returns [err |-> "", val |-> v] or [err |-> <exception>, ...];   *)
(* WinLossRecord compares and hashes by win_pct, which divides by          *)
(* wins + losses; tuples compare element by element, taking two references *)
(* to one object as equal without calling __eq__; sorted() is CPython's    *)
(* list sort for lists shorter than 64 (one run, binary insertion).        *)
(* win_pct values are floats of ratios of small integers, so two of them   *)
(* are equal or ordered exactly as the ratios are (cross-multiplication).  *)
(*                                                                         *)
(* The module also holds normalize_player_name of py/players.py, the       *)
(* helpers of py/str_util.py, PlayerDirectory of py/bball_reference.py     *)
(* (`_lookup' and `_fragments_lookup' are its two indexes) and Team.parse  *)
(* of py/teams.py.  Calls made directly on these and on Record.update are  *)
(* separate specifications; `call' holds the arguments and the outcome of  *)
(* the last call and `calls' the number of calls made.                     *)
(*                                                                         *)
(* web.fetch of py/web.py works on `cache_files', the files under the      *)
(* downloads directory with their text and modification date, and on       *)
(* `today', the date of the clock.  `trial' holds the local variables of   *)
(* a running BetPredictor.simulate() of py/bet_predictor_2024.py, whose    *)
(* base standings and games are `records' and `games'.                     *)
(***************************************************************************)
EXTENDS Integers, Sequences, FiniteSets, TLC

VARIABLES records, games, _lookup, _fragments_lookup, call, calls,
          cache_files, today, trial

vars == <<records, games, _lookup, _fragments_lookup, call, calls,
          cache_files, today, trial>>

(***************************************************************************)
(* Bounds of the exploration.                                              *)
(***************************************************************************)
\* number of fixture rows the constructor reads
MaxGames == 49
\* recorded scores range over 100 .. 100 + MaxMargin
MaxMargin == 1

(***************************************************************************)
(* py/teams.py: the catalog.                                               *)
(***************************************************************************)
Team(abbrev, conference, division) ==
    [abbrev |-> abbrev, conference |-> conference, division |-> division]

CurrentCatalog ==
    << Team("ATL", "Eastern", "Southeast"), Team("BOS", "Eastern", "Atlantic"),
       Team("BRK", "Eastern", "Atlantic"),  Team("CHH", "Eastern", "Southeast"),
       Team("CHI", "Eastern", "Central"),   Team("CLE", "Eastern", "Central"),
       Team("DAL", "Western", "Southwest"), Team("DEN", "Western", "Northwest"),
       Team("DET", "Eastern", "Central"),   Team("GSW", "Western", "Pacific"),
       Team("HOU", "Western", "Southwest"), Team("IND", "Eastern", "Central"),
       Team("LAC", "Western", "Pacific"),   Team("LAL", "Western", "Pacific"),
       Team("MEM", "Western", "Southwest"), Team("MIA", "Eastern", "Southeast"),
       Team("MIL", "Eastern", "Central"),   Team("MIN", "Western", "Northwest"),
       Team("NOP", "Western", "Southwest"), Team("NYK", "Eastern", "Atlantic"),
       Team("OKC", "Western", "Northwest"), Team("ORL", "Eastern", "Southeast"),
       Team("PHI", "Eastern", "Atlantic"),  Team("PHO", "Western", "Pacific"),
       Team("POR", "Western", "Northwest"), Team("SAC", "Western", "Pacific"),
       Team("SAS", "Western", "Southwest"), Team("TOR", "Eastern", "Atlantic"),
       Team("UTA", "Western", "Northwest"), Team("WAS", "Eastern", "Southeast") >>

\* CHH is listed among the defunct teams too: the name CHH is bound to the
\* current (Eastern, Southeast) team, the defunct definition is commented out
DefunctCatalog ==
    << Team("BAL", "Defunct", "Defunct"), Team("BUF", "Defunct", "Defunct"),
       Team("CAP", "Defunct", "Defunct"), Team("CHA", "Defunct", "Defunct"),
       Team("CHH", "Eastern", "Southeast"),
       Team("CIN", "Defunct", "Defunct"), Team("KCK", "Defunct", "Defunct"),
       Team("NJN", "Defunct", "Defunct"), Team("NOH", "Defunct", "Defunct"),
       Team("NOJ", "Defunct", "Defunct"), Team("NOK", "Defunct", "Defunct"),
       Team("NYN", "Defunct", "Defunct"), Team("SDC", "Defunct", "Defunct"),
       Team("SDR", "Defunct", "Defunct"), Team("SEA", "Defunct", "Defunct"),
       Team("SFW", "Defunct", "Defunct"), Team("VAN", "Defunct", "Defunct"),
       Team("WSB", "Defunct", "Defunct") >>

\* a team is referred to by its abbreviation, unique in the catalog
TEAMS == [i \in 1..Len(CurrentCatalog) |-> CurrentCatalog[i].abbrev]

DEFUNCT_TEAMS == [i \in 1..Len(DefunctCatalog) |-> DefunctCatalog[i].abbrev]

AllCatalog == CurrentCatalog \o DefunctCatalog

TeamSet == {TEAMS[i] : i \in 1..Len(TEAMS)}

conference ==
    [t \in TeamSet |->
        CurrentCatalog[CHOOSE i \in 1..Len(CurrentCatalog) :
                           CurrentCatalog[i].abbrev = t].conference]

division ==
    [t \in TeamSet |->
        CurrentCatalog[CHOOSE i \in 1..Len(CurrentCatalog) :
                           CurrentCatalog[i].abbrev = t].division]

RECURSIVE SelectByField(_, _, _)
\* the entries of catalog s whose field `field' is `value', in catalog order
SelectByField(s, field, value) ==
    IF s = << >> THEN << >>
    ELSE (IF Head(s)[field] = value THEN << Head(s).abbrev >> ELSE << >>)
         \o SelectByField(Tail(s), field, value)

\* TEAMS_BY_CONFERENCE[conf]: one append per entry of TEAMS + DEFUNCT_TEAMS
TEAMS_BY_CONFERENCE(conf) == SelectByField(AllCatalog, "conference", conf)

WESTERN_CONFERENCE_TEAMS == TEAMS_BY_CONFERENCE("Western")

EASTERN_CONFERENCE_TEAMS == TEAMS_BY_CONFERENCE("Eastern")

(***************************************************************************)
(* Python results.                                                         *)
(***************************************************************************)
Ok(v) == [err |-> "", val |-> v]

Raise(e) == [err |-> e, val |-> << >>]

Raised(r) == r.err # ""

(***************************************************************************)
(* py/games.py: Game.                                                      *)
(***************************************************************************)
NoTeam == "None"

\* Game.__init__ on a fixture row; result is << >> (empty Result column) or
\* <<home_score, away_score>>
Game(row, home, away, result) ==
    IF result = << >>
    THEN [row |-> row, home_team |-> home, away_team |-> away,
          points |-> << >>, winner |-> NoTeam, loser |-> NoTeam]
    ELSE LET home_score == result[1]
             away_score == result[2]
         IN  [row |-> row, home_team |-> home, away_team |-> away,
              points |-> (home :> home_score) @@ (away :> away_score),
              winner |-> IF home_score > away_score THEN home ELSE away,
              loser  |-> IF home_score < away_score THEN home ELSE away]

completed(game) == game.winner # NoTeam

other_team(game, team) ==
    IF game.home_team = team THEN Ok(game.away_team)
    ELSE IF game.away_team = team THEN Ok(game.home_team)
    ELSE Raise("Exception")

teams_are_in_same_conference(game) ==
    conference[game.home_team] = conference[game.away_team]

teams_are_in_same_division(game) ==
    division[game.home_team] = division[game.away_team]

was_won_by(game, team) ==
    IF ~(completed(game) /\ team \in DOMAIN game.points)
    THEN Raise("AssertionError")
    ELSE Ok(game.winner = team)

\* the differential returned without its sign
get_point_differential_Unsigned(game, team) ==
    IF ~(completed(game) /\ team \in DOMAIN game.points)
    THEN Raise("AssertionError")
    ELSE Ok(game.points[game.winner] - game.points[game.loser])

get_point_differential(game, team) ==
    IF ~(completed(game) /\ team \in DOMAIN game.points)
    THEN Raise("AssertionError")
    ELSE LET diff == game.points[game.winner] - game.points[game.loser]
         IN  Ok(IF team = game.winner THEN diff ELSE 0 - diff)

(***************************************************************************)
(* py/games.py: WinLossRecord.                                             *)
(***************************************************************************)
WinLossRecord == [wins |-> 0, losses |-> 0]

WinLossUpdate(r, won) ==
    IF won THEN [r EXCEPT !.wins = @ + 1] ELSE [r EXCEPT !.losses = @ + 1]

WinLossAdd(r, other) ==
    [wins |-> r.wins + other.wins, losses |-> r.losses + other.losses]

\* win_pct raises ZeroDivisionError exactly when no game is counted
WinPctRaises(r) == r.wins + r.losses = 0

\* records compared by their (wins, losses) pair
WinPctEq_ExactRecord(a, b) == a.wins = b.wins /\ a.losses = b.losses

\* a.win_pct == b.win_pct, both defined
WinPctEq(a, b) == a.wins * (b.wins + b.losses) = b.wins * (a.wins + a.losses)

\* a.win_pct < b.win_pct, both defined
WinPctLt(a, b) == a.wins * (b.wins + b.losses) < b.wins * (a.wins + a.losses)

(***************************************************************************)
(* py/games.py: Record.                                                    *)
(***************************************************************************)
Record(team) ==
    [team |-> team,
     overall_win_loss |-> WinLossRecord,
     win_loss_by_team |-> [t \in TeamSet |-> WinLossRecord],
     division_win_loss |-> WinLossRecord,
     conference_win_loss |-> WinLossRecord,
     point_differential |-> 0]

num_games(record) == record.overall_win_loss.wins + record.overall_win_loss.losses

\* Record.update taking the division test for the conference test
RecordUpdate_DivisionForConference(record, game) ==
    LET w == was_won_by(game, record.team)
    IN  IF Raised(w) THEN [err |-> w.err, val |-> record]
        ELSE
        LET won == w.val
            r1 == [record EXCEPT !.overall_win_loss = WinLossUpdate(@, won)]
            o  == other_team(game, record.team)
            r2 == [r1 EXCEPT !.win_loss_by_team[o.val] = WinLossUpdate(@, won)]
            r3 == IF teams_are_in_same_division(game)
                  THEN [r2 EXCEPT !.conference_win_loss = WinLossUpdate(@, won)]
                  ELSE r2
            r4 == IF teams_are_in_same_division(game)
                  THEN [r3 EXCEPT !.division_win_loss = WinLossUpdate(@, won)]
                  ELSE r3
            d  == get_point_differential(game, record.team)
        IN  Ok([r4 EXCEPT !.point_differential = @ + d.val])

\* Record.update counting the game in the overall record before the check of
\* was_won_by is made
RecordUpdate_CountsBeforeCheck(record, game) ==
    LET w == was_won_by(game, record.team)
    IN  IF Raised(w)
        THEN [err |-> w.err,
              val |-> [record EXCEPT !.overall_win_loss = WinLossUpdate(@, FALSE)]]
        ELSE
        LET won == w.val
            r1 == [record EXCEPT !.overall_win_loss = WinLossUpdate(@, won)]
            o  == other_team(game, record.team)
            r2 == [r1 EXCEPT !.win_loss_by_team[o.val] = WinLossUpdate(@, won)]
            r3 == IF teams_are_in_same_conference(game)
                  THEN [r2 EXCEPT !.conference_win_loss = WinLossUpdate(@, won)]
                  ELSE r2
            r4 == IF teams_are_in_same_division(game)
                  THEN [r3 EXCEPT !.division_win_loss = WinLossUpdate(@, won)]
                  ELSE r3
            d  == get_point_differential(game, record.team)
        IN  Ok([r4 EXCEPT !.point_differential = @ + d.val])

\* Record.update with the conference test made the alternative of the
\* division test: a game within a division is not counted in the conference
\* record
RecordUpdate_ConferenceElseDivision(record, game) ==
    LET w == was_won_by(game, record.team)
    IN  IF Raised(w) THEN [err |-> w.err, val |-> record]
        ELSE
        LET won == w.val
            r1 == [record EXCEPT !.overall_win_loss = WinLossUpdate(@, won)]
            o  == other_team(game, record.team)
            r2 == [r1 EXCEPT !.win_loss_by_team[o.val] = WinLossUpdate(@, won)]
            r3 == IF teams_are_in_same_division(game)
                  THEN [r2 EXCEPT !.division_win_loss = WinLossUpdate(@, won)]
                  ELSE IF teams_are_in_same_conference(game)
                  THEN [r2 EXCEPT !.conference_win_loss = WinLossUpdate(@, won)]
                  ELSE r2
            d  == get_point_differential(game, record.team)
        IN  Ok([r3 EXCEPT !.point_differential = @ + d.val])

\* Record.update: the statements run in order, an exception leaves the
\* fields assigned before it
RecordUpdate(record, game) ==
    LET w == was_won_by(game, record.team)
    IN  IF Raised(w) THEN [err |-> w.err, val |-> record]
        ELSE
        LET won == w.val
            r1 == [record EXCEPT !.overall_win_loss = WinLossUpdate(@, won)]
            o  == other_team(game, record.team)
            r2 == [r1 EXCEPT !.win_loss_by_team[o.val] = WinLossUpdate(@, won)]
            r3 == IF teams_are_in_same_conference(game)
                  THEN [r2 EXCEPT !.conference_win_loss = WinLossUpdate(@, won)]
                  ELSE r2
            r4 == IF teams_are_in_same_division(game)
                  THEN [r3 EXCEPT !.division_win_loss = WinLossUpdate(@, won)]
                  ELSE r3
            d  == get_point_differential(game, record.team)
        IN  Ok([r4 EXCEPT !.point_differential = @ + d.val])

RECURSIVE HeadToHeadSum(_, _)
HeadToHeadSum(record, teams) ==
    IF teams = << >> THEN WinLossRecord
    ELSE WinLossAdd(record.win_loss_by_team[Head(teams)],
                    HeadToHeadSum(record, Tail(teams)))

\* Record.head_to_head_record: one addition per element of the list
head_to_head_record(record, teams) == HeadToHeadSum(record, teams)

(***************************************************************************)
(* sorted(list, reverse=True) as CPython runs it on a list of fewer than   *)
(* 64 elements.  lt[<<x, y>>] is the result of x < y on two elements:      *)
(* Ok(TRUE), Ok(FALSE) or a raised exception, which ends the sort.         *)
(***************************************************************************)
RECURSIVE Reverse(_)
Reverse(s) == IF s = << >> THEN << >> ELSE Append(Reverse(Tail(s)), Head(s))

RECURSIVE RunLength(_, _, _, _)
\* count_run: the run a[1..n] continues while a[k] < a[k-1] is `descending'
RunLength(a, lt, k, descending) ==
    IF k > Len(a) THEN Ok(k - 1)
    ELSE LET c == lt[<<a[k], a[k - 1]>>]
         IN  IF Raised(c) THEN c
             ELSE IF c.val = descending THEN RunLength(a, lt, k + 1, descending)
             ELSE Ok(k - 1)

RECURSIVE BinarySearch(_, _, _, _, _)
\* the inner loop of binarysort: the position of pivot in a[l..r-1]
BinarySearch(a, lt, pivot, l, r) ==
    LET p == l + ((r - l) \div 2)
        c == lt[<<pivot, a[p]>>]
    IN  IF Raised(c) THEN c
        ELSE LET l2 == IF c.val THEN l ELSE p + 1
                 r2 == IF c.val THEN p ELSE r
             IN  IF l2 < r2 THEN BinarySearch(a, lt, pivot, l2, r2) ELSE Ok(l2)

RECURSIVE BinarySort(_, _, _)
\* binarysort: a[1..start-1] is sorted, a[start..] is inserted one by one
BinarySort(a, lt, start) ==
    IF start > Len(a) THEN Ok(a)
    ELSE LET pivot == a[start]
             pos == BinarySearch(a, lt, pivot, 1, start)
         IN  IF Raised(pos) THEN pos
             ELSE BinarySort(SubSeq(a, 1, pos.val - 1) \o << pivot >>
                             \o SubSeq(a, pos.val, start - 1)
                             \o SubSeq(a, start + 1, Len(a)),
                             lt, start + 1)

\* list.sort without reverse: the first run, reversed if strictly
\* descending, then binary insertion of the remaining elements
ListSort(a, lt) ==
    IF Len(a) < 2 THEN Ok(a)
    ELSE LET first == lt[<<a[2], a[1]>>]
         IN  IF Raised(first) THEN first
             ELSE LET run == RunLength(a, lt, 3, first.val)
                  IN  IF Raised(run) THEN run
                      ELSE LET n == run.val
                               b == IF first.val
                                    THEN Reverse(SubSeq(a, 1, n)) \o SubSeq(a, n + 1, Len(a))
                                    ELSE a
                           IN  BinarySort(b, lt, n + 1)

\* sorted(a, reverse=True): reverse, sort, reverse
SortedReverse(a, lt) ==
    LET s == ListSort(Reverse(a), lt)
    IN  IF Raised(s) THEN s ELSE Ok(Reverse(s.val))

(***************************************************************************)
(* py/games.py: Standings, the tiebreaker tuple.                           *)
(***************************************************************************)
\* A component of the tuple.  `shared' marks an object that lives in the
\* team's Record (the same object in every tuple built for that team);
\* head_to_head_record returns a new object on every call.  `name' is the
\* criterion of the docstring the component stands for.
RecordComponent(name, team, value) ==
    [name |-> name, kind |-> "record", shared |-> TRUE, owner |-> team,
     wl |-> value, int |-> 0]

FreshComponent(name, team, value) ==
    [name |-> name, kind |-> "record", shared |-> FALSE, owner |-> team,
     wl |-> value, int |-> 0]

IntComponent(name, team, value) ==
    [name |-> name, kind |-> "int", shared |-> FALSE, owner |-> team,
     wl |-> WinLossRecord, int |-> value]

RECURSIVE AllSameDivision(_, _)
AllSameDivision(team, tied_group) ==
    IF tied_group = << >> THEN TRUE
    ELSE division[team] = division[Head(tied_group)]
         /\ AllSameDivision(team, Tail(tied_group))

\* the team compared with the first member of the group only
same_division_FirstMember(team, tied_group) ==
    division[team] = division[tied_group[1]]

\* all(team.division == tied_team.division for tied_team in tied_group)
same_division(team, tied_group) == AllSameDivision(team, tied_group)

_tiebreaker_tuple(recs, team, tied_group, own_conference_playoff_teams, opposing_conference_playoff_teams) ==
    LET record == recs[team]
        components ==
            << RecordComponent("overall", team, record.overall_win_loss),
               FreshComponent("head_to_head", team,
                              head_to_head_record(record, tied_group)) >>
        withDivision ==
            IF same_division(team, tied_group)
            THEN Append(components,
                        RecordComponent("division", team, record.division_win_loss))
            ELSE components
    IN  withDivision \o
        << RecordComponent("conference", team, record.conference_win_loss),
           FreshComponent("own_playoff", team,
                          head_to_head_record(record, own_conference_playoff_teams)),
           FreshComponent("opposing_playoff", team,
                          head_to_head_record(record, opposing_conference_playoff_teams)),
           IntComponent("point_differential", team, record.point_differential) >>

\* x == y on two components at the same position of two tuples
ComponentEq(x, y) ==
    IF x.kind = "int" THEN Ok(x.int = y.int)
    ELSE IF x.shared /\ y.shared /\ x.owner = y.owner THEN Ok(TRUE)
    ELSE IF WinPctRaises(x.wl) \/ WinPctRaises(y.wl) THEN Raise("ZeroDivisionError")
    ELSE Ok(WinPctEq(x.wl, y.wl))

\* x < y on two components
ComponentLt(x, y) ==
    IF x.kind = "int" THEN Ok(x.int < y.int)
    ELSE IF WinPctRaises(x.wl) \/ WinPctRaises(y.wl) THEN Raise("ZeroDivisionError")
    ELSE Ok(WinPctLt(x.wl, y.wl))

RECURSIVE FirstDifference(_, _, _)
\* tuple comparison: the first index at which the tuples differ,
\* Len + 1 if one is a prefix of the other
FirstDifference(t1, t2, i) ==
    IF i > Len(t1) \/ i > Len(t2) THEN Ok(i)
    ELSE LET e == ComponentEq(t1[i], t2[i])
         IN  IF Raised(e) THEN e
             ELSE IF e.val THEN FirstDifference(t1, t2, i + 1)
             ELSE Ok(i)

\* (tuple1, team1) < (tuple2, team2) on two elements of tuple_teams
TupleTeamLt(tuple1, team1, tuple2, team2) ==
    LET d == FirstDifference(tuple1, tuple2, 1)
    IN  IF Raised(d) THEN d
        ELSE IF d.val <= Len(tuple1) /\ d.val <= Len(tuple2)
             THEN ComponentLt(tuple1[d.val], tuple2[d.val])
        ELSE IF Len(tuple1) # Len(tuple2) THEN Ok(Len(tuple1) < Len(tuple2))
        ELSE IF team1 = team2 THEN Ok(FALSE)
        ELSE Raise("TypeError")

RECURSIVE SeqToSet(_)
SeqToSet(s) == IF s = << >> THEN {} ELSE {Head(s)} \cup SeqToSet(Tail(s))

_break_tie(recs, tied_group, own_conference_playoff_teams, opposing_conference_playoff_teams) ==
    LET members == SeqToSet(tied_group)
        tuple_of == [t \in members |->
                        _tiebreaker_tuple(recs, t, tied_group,
                                          own_conference_playoff_teams,
                                          opposing_conference_playoff_teams)]
        lt == [p \in members \X members |->
                  TupleTeamLt(tuple_of[p[1]], p[1], tuple_of[p[2]], p[2])]
    IN  SortedReverse(tied_group, lt)

RECURSIVE Chain(_)
\* itertools.chain(*groups)
Chain(groups) == IF groups = << >> THEN << >> ELSE Head(groups) \o Chain(Tail(groups))

RECURSIVE BreakGroups(_, _, _, _)
\* the loop seeding.extend(self._break_tie(group, own, opp)) over groups
BreakGroups(recs, groups, own, opp) ==
    IF groups = << >> THEN Ok(<< >>)
    ELSE LET first == _break_tie(recs, Head(groups), own, opp)
         IN  IF Raised(first) THEN first
             ELSE LET rest == BreakGroups(recs, Tail(groups), own, opp)
                  IN  IF Raised(rest) THEN rest ELSE Ok(first.val \o rest.val)

Take(s, n) == SubSeq(s, 1, IF Len(s) < n THEN Len(s) ELSE n)

_break_ties(recs, east_groups, west_groups) ==
    LET east_teams == Chain(east_groups)
        west_teams == Chain(west_groups)
        east_seeding == BreakGroups(recs, east_groups, east_teams, west_teams)
    IN  IF Raised(east_seeding) THEN east_seeding
        ELSE LET west_seeding == BreakGroups(recs, west_groups, west_teams, east_teams)
             IN  IF Raised(west_seeding) THEN west_seeding
                 ELSE Ok([east_seeding |-> Take(east_seeding.val, 10),
                          west_seeding |-> Take(west_seeding.val, 10)])

RECURSIVE GroupByOverall(_, _, _)
\* the defaultdict teams_by_overall_win_loss in insertion order: a team
\* joins the entry whose key hashes and compares equal to its record
GroupByOverall(recs, teams, dict) ==
    IF teams = << >> THEN Ok(dict)
    ELSE LET team == Head(teams)
             key == recs[team].overall_win_loss
         IN  IF WinPctRaises(key) THEN Raise("ZeroDivisionError")
             ELSE LET hits == {i \in 1..Len(dict) : WinPctEq(dict[i].key, key)}
                  IN  IF hits = {}
                      THEN GroupByOverall(recs, Tail(teams),
                                          Append(dict, [key |-> key, group |-> << team >>]))
                      ELSE LET i == CHOOSE j \in hits : TRUE
                           IN  GroupByOverall(recs, Tail(teams),
                                   [dict EXCEPT ![i].group = Append(@, team)])

\* (key1, group1) < (key2, group2) on two items of the dict; two keys of a
\* dict are never equal, so the groups are not compared
ItemLt(item1, item2) ==
    IF WinPctRaises(item1.key) \/ WinPctRaises(item2.key) THEN Raise("ZeroDivisionError")
    ELSE IF WinPctEq(item1.key, item2.key) THEN Raise("TypeError")
    ELSE Ok(WinPctLt(item1.key, item2.key))

RECURSIVE TakeGroups_CutsLastGroup(_, _)
\* the loop filling the list up to 10 teams: the group that crosses 10 is
\* cut in its dict order, before the tiebreakers rank it
TakeGroups_CutsLastGroup(items, n_teams) ==
    IF items = << >> THEN << >>
    ELSE LET group == Head(items).group
         IN  IF n_teams + Len(group) >= 10 THEN << Take(group, 10 - n_teams) >>
             ELSE << group >> \o TakeGroups_CutsLastGroup(Tail(items), n_teams + Len(group))

RECURSIVE TakeGroups(_, _)
\* the loop that appends groups until n_teams >= 10
TakeGroups(items, n_teams) ==
    IF items = << >> THEN << >>
    ELSE LET group == Head(items).group
         IN  IF n_teams + Len(group) >= 10 THEN << group >>
             ELSE << group >> \o TakeGroups(Tail(items), n_teams + Len(group))

_get_tiebreaker_sets(recs, teams) ==
    LET dict == GroupByOverall(recs, teams, << >>)
    IN  IF Raised(dict) THEN dict
        ELSE LET items == SeqToSet(dict.val)
                 lt == [p \in items \X items |-> ItemLt(p[1], p[2])]
                 sorted == SortedReverse(dict.val, lt)
             IN  IF Raised(sorted) THEN sorted ELSE Ok(TakeGroups(sorted.val, 0))

playoff_seeding(recs) ==
    LET east_groups == _get_tiebreaker_sets(recs, EASTERN_CONFERENCE_TEAMS)
    IN  IF Raised(east_groups) THEN east_groups
        ELSE LET west_groups == _get_tiebreaker_sets(recs, WESTERN_CONFERENCE_TEAMS)
             IN  IF Raised(west_groups) THEN west_groups
                 ELSE _break_ties(recs, east_groups.val, west_groups.val)

determine_finals_home_court_advantage(recs, team1, team2) ==
    LET tuple1 == _tiebreaker_tuple(recs, team1, <<team1, team2>>, << >>, << >>)
        tuple2 == _tiebreaker_tuple(recs, team2, <<team1, team2>>, << >>, << >>)
        d == FirstDifference(tuple1, tuple2, 1)
        less == IF Raised(d) THEN d
                ELSE IF d.val <= Len(tuple1) /\ d.val <= Len(tuple2)
                     THEN ComponentLt(tuple1[d.val], tuple2[d.val])
                ELSE Ok(Len(tuple1) < Len(tuple2))
    IN  IF Raised(less) THEN less
        ELSE Ok(IF less.val THEN team2 ELSE team1)

(***************************************************************************)
(* Python strings.  A str is the sequence of its characters, each a        *)
(* one-character string.  Str(s) is the same text as a single value: it is *)
(* what a dict keyed by strings hashes, and how a literal of the source is *)
(* compared with a computed string.                                        *)
(***************************************************************************)
LowerLetters ==
    << "a", "b", "c", "d", "e", "f", "g", "h", "i", "j", "k", "l", "m",
       "n", "o", "p", "q", "r", "s", "t", "u", "v", "w", "x", "y", "z" >>

UpperLetters ==
    << "A", "B", "C", "D", "E", "F", "G", "H", "I", "J", "K", "L", "M",
       "N", "O", "P", "Q", "R", "S", "T", "U", "V", "W", "X", "Y", "Z" >>

LetterIndex(letters, c) == CHOOSE i \in 1..Len(letters) : letters[i] = c

\* str.upper() and str.lower() on one ASCII character
UpperChar(c) ==
    IF \E i \in 1..Len(LowerLetters) : LowerLetters[i] = c
    THEN UpperLetters[LetterIndex(LowerLetters, c)] ELSE c

LowerChar(c) ==
    IF \E i \in 1..Len(UpperLetters) : UpperLetters[i] = c
    THEN LowerLetters[LetterIndex(UpperLetters, c)] ELSE c

upper(s) == [i \in 1..Len(s) |-> UpperChar(s[i])]

lower(s) == [i \in 1..Len(s) |-> LowerChar(s[i])]

RECURSIVE Str(_)
Str(s) == IF s = << >> THEN "" ELSE Head(s) \o Str(Tail(s))

\* s.replace(c, '')
replace(s, c) == SelectSeq(s, LAMBDA x : x # c)

IsSpace(c) == c \in {" ", "\t", "\n", "\r"}

RECURSIVE SplitFrom(_, _, _)
\* the tokens of s[i..], `token' being the characters read of the current one
SplitFrom(s, i, token) ==
    LET done == IF token = << >> THEN << >> ELSE << token >>
    IN  IF i > Len(s) THEN done
        ELSE IF IsSpace(s[i]) THEN done \o SplitFrom(s, i + 1, << >>)
        ELSE SplitFrom(s, i + 1, Append(token, s[i]))

\* s.split(): the maximal runs of non-whitespace characters
split(s) == SplitFrom(s, 1, << >>)

RECURSIVE join(_, _)
\* sep.join(tokens)
join(sep, tokens) ==
    IF tokens = << >> THEN << >>
    ELSE IF Len(tokens) = 1 THEN tokens[1]
    ELSE tokens[1] \o sep \o join(sep, Tail(tokens))

(***************************************************************************)
(* py/players.py: normalize_player_name.                                   *)
(***************************************************************************)
\* unidecode: ASCII characters are kept, an accented letter becomes its
\* ASCII letter
unidecode(s) == [i \in 1..Len(s) |-> IF s[i] = "é" THEN "e" ELSE s[i]]

RECURSIVE CapitalizeAfterApostrophes(_, _)
\* for i, c in enumerate(chars): if c == "'": chars[i + 1] = chars[i + 1].upper()
\* (i counts from 1 here); an apostrophe in the last place indexes past the
\* end of the list
CapitalizeAfterApostrophes(chars, i) ==
    IF i > Len(chars) THEN Ok(chars)
    ELSE IF chars[i] = "'"
         THEN IF i + 1 > Len(chars) THEN Raise("IndexError")
              ELSE CapitalizeAfterApostrophes([chars EXCEPT ![i + 1] = UpperChar(@)], i + 1)
    ELSE CapitalizeAfterApostrophes(chars, i + 1)

\* if len(t) > 1 and t[-2] == "'": t[:-2] + t[-2:].lower()
LowerSingleLetterSuffix(t) ==
    IF Len(t) > 1 /\ t[Len(t) - 1] = "'"
    THEN SubSeq(t, 1, Len(t) - 2) \o lower(SubSeq(t, Len(t) - 1, Len(t)))
    ELSE t

\* special_cases.get(name, name)
special_cases(name) ==
    IF Str(name) = "Britton Johnson"
    THEN << "B", "r", "i", "t", "t", "o", "n", " ", "J", "o", "h", "n",
         "s", "e", "n" >>
    ELSE IF Str(name) = "Ruben Boumtje Boumtje"
    THEN << "R", "u", "b", "e", "n", " ", "B", "o", "u", "m", "t", "j",
         "e", "-", "B", "o", "u", "m", "t", "j", "e" >>
    ELSE name

normalize_player_name(player_name) ==
    LET name == unidecode(replace(player_name, "."))
        capitalized == CapitalizeAfterApostrophes(name, 1)
    IN  IF Raised(capitalized) THEN capitalized
        ELSE LET tokens == split(capitalized.val)
                 fixed == [i \in 1..Len(tokens) |-> LowerSingleLetterSuffix(tokens[i])]
             IN  Ok(special_cases(join(<< " " >>, fixed)))

(***************************************************************************)
(* py/str_util.py.                                                         *)
(***************************************************************************)
\* s.find(c), counting from 1; 0 when c is not in s
find(s, c) ==
    IF \E i \in 1..Len(s) : s[i] = c
    THEN CHOOSE i \in 1..Len(s) : s[i] = c /\ \A j \in 1..(i - 1) : s[j] # c
    ELSE 0

\* the characters of s at places a .. b (empty when a > b)
Slice(s, a, b) == IF a > b THEN << >> ELSE SubSeq(s, a, b)

RECURSIVE LStrip(_)
LStrip(s) == IF s # << >> /\ IsSpace(Head(s)) THEN LStrip(Tail(s)) ELSE s

RECURSIVE RStrip(_)
RStrip(s) ==
    IF s # << >> /\ IsSpace(s[Len(s)]) THEN RStrip(SubSeq(s, 1, Len(s) - 1)) ELSE s

\* s.strip()
strip(s) == LStrip(RStrip(s))

RECURSIVE extract_parenthesized_strs(_)
\* the strings the generator yields
extract_parenthesized_strs(s) ==
    IF s = << >> THEN << >>
    ELSE LET start == find(s, "(")
             end == find(s, ")")
         IN  IF start = 0 \/ end = 0 THEN << >>
             ELSE << Slice(s, start + 1, end - 1) >>
                  \o extract_parenthesized_strs(Slice(s, end + 1, Len(s)))

RECURSIVE RemoveParenthesizedTokens(_)
\* the list `tokens' the loop of remove_parenthesized_strs builds
RemoveParenthesizedTokens(s) ==
    IF s = << >> THEN << >>
    ELSE LET start == find(s, "(")
             end == find(s, ")")
         IN  IF start = 0 THEN << s >>
             ELSE IF end = 0 THEN << strip(Slice(s, 1, start - 1)) >>
             ELSE IF end < start THEN RemoveParenthesizedTokens(Slice(s, end + 1, Len(s)))
             ELSE << strip(Slice(s, 1, start - 1)) >>
                  \o RemoveParenthesizedTokens(Slice(s, end + 1, Len(s)))

remove_parenthesized_strs(s) == strip(join(<< " " >>, RemoveParenthesizedTokens(s)))

(***************************************************************************)
(* py/bball_reference.py: PlayerDirectory.  _lookup maps a name to the     *)
(* players of its dict of birthdates, in insertion order; _fragments_lookup*)
(* maps a fragment to its list of players.  Both are keyed by Str of the   *)
(* text; a key that is absent is not in the DOMAIN.  The career logs the   *)
(* constructor also fetches are not part of the index and are left out.    *)
(***************************************************************************)
Player(name, birthdate, active, url) ==
    [name |-> name, birthdate |-> birthdate, active |-> active, url |-> url]

NoBirthdate == "None"

\* d[key] = value on a dict d
DictSet(d, key, value) ==
    [k \in DOMAIN d \cup {key} |-> IF k = key THEN value ELSE d[k]]

\* defaultdict(list)[key]: a missing key is inserted with an empty list
DefaultDictGet(d, key) == IF key \in DOMAIN d THEN d ELSE DictSet(d, key, << >>)

EmptyDict == [k \in {} |-> << >>]

RECURSIVE AppendToFragments(_, _, _)
\* for fragment in player.name.split(): self._fragments_lookup[fragment].append(player)
AppendToFragments(fragments, tokens, player) ==
    IF tokens = << >> THEN fragments
    ELSE LET key == Str(Head(tokens))
             d == DefaultDictGet(fragments, key)
         IN  AppendToFragments(DictSet(d, key, Append(d[key], player)), Tail(tokens), player)

RECURSIVE PlayerDirectoryInit(_, _, _)
\* PlayerDirectory.__init__ over the remaining players of get_all_players()
PlayerDirectoryInit(lookup, fragments, players) ==
    IF players = << >> THEN Ok([lookup |-> lookup, fragments |-> fragments])
    ELSE LET player == Head(players)
             key == Str(player.name)
             d == DefaultDictGet(lookup, key)
             subdict == d[key]
         IN  IF \E i \in 1..Len(subdict) : subdict[i].birthdate = player.birthdate
             THEN Raise("Exception")
             ELSE PlayerDirectoryInit(DictSet(d, key, Append(subdict, player)),
                                      AppendToFragments(fragments, split(player.name), player),
                                      Tail(players))

\* counts[player] += 1 on a Counter kept in insertion order; players are
\* equal when their urls are
CounterAdd(counts, player) ==
    IF \E i \in 1..Len(counts) : counts[i].player.url = player.url
    THEN [i \in 1..Len(counts) |->
             IF counts[i].player.url = player.url
             THEN [counts[i] EXCEPT !.count = @ + 1] ELSE counts[i]]
    ELSE Append(counts, [player |-> player, count |-> 1])

RECURSIVE CounterAddAll(_, _)
CounterAddAll(counts, players) ==
    IF players = << >> THEN counts
    ELSE CounterAddAll(CounterAdd(counts, Head(players)), Tail(players))

RECURSIVE CountTokens(_, _, _)
\* the loop `for token in tokens' over the tokens in iteration order; an
\* exception leaves the keys inserted before it
CountTokens(fragments, tokens, counts) ==
    IF tokens = << >> THEN [err |-> "", fragments |-> fragments, counts |-> counts]
    ELSE LET token == normalize_player_name(Head(tokens))
         IN  IF Raised(token)
             THEN [err |-> token.err, fragments |-> fragments, counts |-> counts]
             ELSE LET d == DefaultDictGet(fragments, Str(token.val))
                  IN  CountTokens(d, Tail(tokens),
                                  CounterAddAll(counts, d[Str(token.val)]))

\* the orders in which a set of strings can be iterated
IterationOrders(S) ==
    {order \in [1..Cardinality(S) -> S] : \A i, j \in 1..Cardinality(S) :
                                             i # j => order[i] # order[j]}

MaxCount(counts) ==
    CHOOSE m \in {counts[i].count : i \in 1..Len(counts)} :
        \A i \in 1..Len(counts) : counts[i].count <= m

RECURSIVE PlayersWithCount(_, _)
PlayersWithCount(counts, c) ==
    IF counts = << >> THEN << >>
    ELSE (IF Head(counts).count = c THEN << Head(counts).player >> ELSE << >>)
         \o PlayersWithCount(Tail(counts), c)

\* PlayerDirectory.get_candidate_matches; `order' is the iteration order of
\* the set of tokens.  The result carries the fragment index the call leaves.
get_candidate_matches(lookup, fragments, name, order) ==
    LET parenthesized_strs == extract_parenthesized_strs(name)
        name_tokens == split(remove_parenthesized_strs(name))
        vanilla == Len(parenthesized_strs) = 0 /\ << "/" >> \notin SeqToSet(name_tokens)
        normalized_name == IF vanilla THEN normalize_player_name(name) ELSE Ok(<< >>)
    IN  IF Raised(normalized_name)
        THEN [err |-> normalized_name.err, val |-> << >>, fragments |-> fragments]
        ELSE IF vanilla /\ Str(normalized_name.val) \in DOMAIN lookup
        THEN [err |-> "", val |-> lookup[Str(normalized_name.val)], fragments |-> fragments]
        ELSE LET counted == CountTokens(fragments, order, << >>)
             IN  IF counted.err # ""
                 THEN [err |-> counted.err, val |-> << >>, fragments |-> counted.fragments]
                 ELSE [err |-> "",
                       val |-> IF counted.counts = << >> THEN << >>
                               ELSE PlayersWithCount(counted.counts, MaxCount(counted.counts)),
                       fragments |-> counted.fragments]

\* the set the loop of get_candidate_matches iterates over
CandidateTokens(name) ==
    SeqToSet(split(remove_parenthesized_strs(name))) \cup SeqToSet(extract_parenthesized_strs(name))

\* PlayerDirectory.get returning the first player of the name whatever the
\* birthdate asked for
get_IgnoresBirthdate(lookup, name, birthdate) ==
    IF Str(name) \notin DOMAIN lookup THEN Raise("InvalidPlayerException")
    ELSE LET subdict == lookup[Str(name)]
         IN  IF Len(subdict) = 0 THEN Raise("AssertionError")
             ELSE IF birthdate = NoBirthdate
             THEN IF Len(subdict) = 1 THEN Ok(subdict[1])
                  ELSE Raise("AmbiguousPlayerException")
             ELSE Ok(subdict[1])

\* PlayerDirectory.get returning the only player of a name before looking at
\* the birthdate
get_SoleBirthdateFirst(lookup, name, birthdate) ==
    IF Str(name) \notin DOMAIN lookup THEN Raise("InvalidPlayerException")
    ELSE LET subdict == lookup[Str(name)]
         IN  IF Len(subdict) = 0 THEN Raise("AssertionError")
             ELSE IF Len(subdict) = 1 THEN Ok(subdict[1])
             ELSE IF birthdate = NoBirthdate THEN Raise("AmbiguousPlayerException")
             ELSE IF \E i \in 1..Len(subdict) : subdict[i].birthdate = birthdate
             THEN Ok(subdict[CHOOSE i \in 1..Len(subdict) : subdict[i].birthdate = birthdate])
             ELSE Raise("InvalidPlayerException")

\* PlayerDirectory.get
get(lookup, name, birthdate) ==
    IF Str(name) \notin DOMAIN lookup THEN Raise("InvalidPlayerException")
    ELSE LET subdict == lookup[Str(name)]
         IN  IF Len(subdict) = 0 THEN Raise("AssertionError")
             ELSE IF birthdate = NoBirthdate
             THEN IF Len(subdict) = 1 THEN Ok(subdict[1])
                  ELSE Raise("AmbiguousPlayerException")
             ELSE IF \E i \in 1..Len(subdict) : subdict[i].birthdate = birthdate
             THEN Ok(subdict[CHOOSE i \in 1..Len(subdict) : subdict[i].birthdate = birthdate])
             ELSE Raise("InvalidPlayerException")

(***************************************************************************)
(* py/teams.py: Team.parse.                                                *)
(***************************************************************************)
\* full_name of every team of the catalog, as its words
FullNameWords ==
    [
       ATL |-> << "Atlanta", "Hawks" >>,
       BOS |-> << "Boston", "Celtics" >>,
       BRK |-> << "Brooklyn", "Nets" >>,
       CHI |-> << "Chicago", "Bulls" >>,
       CHH |-> << "Charlotte", "Hornets" >>,
       CLE |-> << "Cleveland", "Cavaliers" >>,
       DAL |-> << "Dallas", "Mavericks" >>,
       DEN |-> << "Denver", "Nuggets" >>,
       DET |-> << "Detroit", "Pistons" >>,
       GSW |-> << "Golden", "State", "Warriors" >>,
       HOU |-> << "Houston", "Rockets" >>,
       IND |-> << "Indiana", "Pacers" >>,
       LAC |-> << "LA", "Clippers" >>,
       LAL |-> << "Los", "Angeles", "Lakers" >>,
       MEM |-> << "Memphis", "Grizzlies" >>,
       MIA |-> << "Miami", "Heat" >>,
       MIL |-> << "Milwaukee", "Bucks" >>,
       MIN |-> << "Minnesota", "Timberwolves" >>,
       NOP |-> << "New", "Orleans", "Pelicans" >>,
       NYK |-> << "New", "York", "Knicks" >>,
       OKC |-> << "Oklahoma", "City", "Thunder" >>,
       ORL |-> << "Orlando", "Magic" >>,
       PHI |-> << "Philadelphia", "76ers" >>,
       PHO |-> << "Phoenix", "Suns" >>,
       POR |-> << "Portland", "Trail", "Blazers" >>,
       SAC |-> << "Sacramento", "Kings" >>,
       SAS |-> << "San", "Antonio", "Spurs" >>,
       TOR |-> << "Toronto", "Raptors" >>,
       UTA |-> << "Utah", "Jazz" >>,
       WAS |-> << "Washington", "Wizards" >>,
       BAL |-> << "Baltimore", "Bullets" >>,
       BUF |-> << "Buffalo", "Braves" >>,
       CAP |-> << "Capital", "Bullets" >>,
       CHA |-> << "Charlotte", "Bobcats" >>,
       CIN |-> << "Cincinnati", "Royals" >>,
       KCK |-> << "Kansas", "City", "Kings" >>,
       NJN |-> << "New", "Jersey", "Nets" >>,
       NOH |-> << "New", "Orleans", "Hornets" >>,
       NOJ |-> << "New", "Orleans", "Jazz" >>,
       NOK |-> << "New", "Orleans/Oklahoma", "City", "Hornets" >>,
       NYN |-> << "New", "York", "Nets" >>,
       SDC |-> << "San", "Diego", "Clippers" >>,
       SDR |-> << "San", "Diego", "Rockets" >>,
       SEA |-> << "Seattle", "SuperSonics" >>,
       SFW |-> << "San", "Francisco", "Warriors" >>,
       VAN |-> << "Vancouver", "Grizzlies" >>,
       WSB |-> << "Washington", "Bullets" >> ]

RECURSIVE JoinWords(_)
JoinWords(words) ==
    IF Len(words) = 1 THEN words[1] ELSE words[1] \o " " \o JoinWords(Tail(words))

full_name(team) == JoinWords(FullNameWords[team])

\* Team.nickname: full_name.split()[-1]
nickname(team) == FullNameWords[team][Len(FullNameWords[team])]

alternative_abbrevs ==
    [BKN |-> << "B", "R", "K" >>, BRO |-> << "B", "R", "K" >>,
     GOL |-> << "G", "S", "W" >>, NOR |-> << "N", "O", "P" >>,
     PHX |-> << "P", "H", "O" >>, SAN |-> << "S", "A", "S" >>]

\* {key(team): team for team in TEAMS + DEFUNCT_TEAMS}.get(k, None): the last
\* team of the list with the key
TeamDictGet(key, k) ==
    LET hits == {i \in 1..Len(AllCatalog) : key[AllCatalog[i].abbrev] = k}
    IN  IF hits = {} THEN NoTeam
        ELSE AllCatalog[CHOOSE i \in hits : \A j \in hits : j <= i].abbrev

TEAMS_BY_ABBREV(k) == TeamDictGet([team \in DOMAIN FullNameWords |-> team], k)

TEAMS_BY_FULL_NAME(k) == TeamDictGet([team \in DOMAIN FullNameWords |-> full_name(team)], k)

TEAMS_BY_NICKNAME(k) == TeamDictGet([team \in DOMAIN FullNameWords |-> nickname(team)], k)

\* Team.parse returning the first team of the catalog for a string it does
\* not know
parse_DefaultsToFirstTeam(s) ==
    LET s1 == IF Str(upper(s)) \in DOMAIN alternative_abbrevs
              THEN alternative_abbrevs[Str(upper(s))] ELSE s
        by_abbrev == TEAMS_BY_ABBREV(Str(upper(s1)))
        by_nickname == TEAMS_BY_NICKNAME(Str(s1))
        by_full_name == TEAMS_BY_FULL_NAME(Str(s1))
    IN  IF by_abbrev # NoTeam THEN Ok(by_abbrev)
        ELSE IF by_nickname # NoTeam THEN Ok(by_nickname)
        ELSE IF by_full_name # NoTeam THEN Ok(by_full_name)
        ELSE Ok(TEAMS[1])

\* Team.parse: the team, or TeamNameParseError with the string it carries
parse(s) ==
    LET orig_s == s
        s1 == IF Str(upper(s)) \in DOMAIN alternative_abbrevs
              THEN alternative_abbrevs[Str(upper(s))] ELSE s
        by_abbrev == TEAMS_BY_ABBREV(Str(upper(s1)))
        by_nickname == TEAMS_BY_NICKNAME(Str(s1))
        by_full_name == TEAMS_BY_FULL_NAME(Str(s1))
    IN  IF by_abbrev # NoTeam THEN Ok(by_abbrev)
        ELSE IF by_nickname # NoTeam THEN Ok(by_nickname)
        ELSE IF by_full_name # NoTeam THEN Ok(by_full_name)
        ELSE [err |-> "TeamNameParseError", val |-> Str(orig_s)]

(***************************************************************************)
(* The list of games: the rows of the season's fixture file.  The opening  *)
(* rows are played games with their recorded scores, each later row has    *)
(* either an empty Result column or any pair of scores.                    *)
(***************************************************************************)
OpeningFixture ==
    <<
       <<"BOS", "ATL", 98, 99>>, <<"DAL", "BRK", 103, 100>>, <<"OKC", "CHI", 104, 109>>,
       <<"CHI", "SAS", 102, 100>>, <<"MIL", "PHI", 110, 111>>, <<"DAL", "PHO", 110, 115>>,
       <<"POR", "CLE", 110, 115>>, <<"SAC", "CLE", 98, 101>>, <<"BOS", "WAS", 102, 100>>,
       <<"MEM", "CHH", 113, 110>>, <<"PHO", "LAL", 100, 103>>, <<"DET", "GSW", 104, 107>>,
       <<"PHI", "NYK", 100, 103>>, <<"MIA", "MEM", 98, 101>>, <<"OKC", "CLE", 98, 101>>,
       <<"DAL", "ORL", 112, 110>>, <<"MIL", "ATL", 115, 110>>, <<"DAL", "LAL", 100, 101>>,
       <<"GSW", "CHH", 104, 107>>, <<"OKC", "LAL", 105, 104>>, <<"CLE", "SAC", 100, 95>>,
       <<"MIN", "NYK", 96, 95>>, <<"DEN", "NYK", 105, 104>>, <<"OKC", "PHI", 100, 103>>,
       <<"SAC", "MIA", 104, 106>>, <<"ATL", "CHH", 98, 100>>, <<"CHI", "HOU", 97, 95>>,
       <<"SAC", "LAL", 99, 98>>, <<"UTA", "PHI", 104, 105>>, <<"GSW", "CLE", 101, 98>>,
       <<"SAC", "BOS", 97, 95>>, <<"DEN", "MIN", 106, 104>>, <<"DEN", "MIN", 104, 106>>,
       <<"BOS", "CHH", 103, 98>>, <<"NYK", "MEM", 101, 100>>, <<"HOU", "TOR", 113, 110>>,
       <<"BOS", "ATL", 110, 111>>, <<"GSW", "MEM", 106, 104>>, <<"ATL", "MIL", 95, 98>>,
       <<"NYK", "LAC", 98, 95>>, <<"HOU", "GSW", 98, 99>>, <<"IND", "CHI", 110, 111>>,
       <<"CHI", "DEN", 110, 111>>, <<"CLE", "NOP", 99, 98>>, <<"CHH", "MEM", 104, 105>> >>

RemainingFixture ==
    <<
       <<"PHI", "MIN">>, <<"CLE", "SAC">>, <<"ATL", "BRK">>, <<"BRK", "CLE">> >>

Scores == 100..(100 + MaxMargin)

\* the values of the Result column: empty, or "home - away"
Results == {<< >>} \cup (Scores \X Scores)

FixtureRow(row) ==
    IF row <= Len(OpeningFixture)
    THEN [home |-> OpeningFixture[row][1], away |-> OpeningFixture[row][2],
          results |-> {<<OpeningFixture[row][3], OpeningFixture[row][4]>>}]
    ELSE LET r == RemainingFixture[((row - Len(OpeningFixture) - 1) % Len(RemainingFixture)) + 1]
         IN  [home |-> r[1], away |-> r[2], results |-> Results]

\* the fixture row of the next element of the list
NextRow == IF games = << >> THEN 1 ELSE games[Len(games)].row + 1

(***************************************************************************)
(* The player directory of a run: built once, before the constructor of    *)
(* Standings or any query runs, from the list get_all_players() returns.   *)
(***************************************************************************)
\* the list get_all_players() returns: names as normalize_player_name
\* leaves them, one name with two birthdates, one name with a repeated word
AllPlayers ==
    << Player(<< "A", "l", " ", "B", "a" >>,
              "1980-01-01", TRUE, "/players/b/baal01.html"),
       Player(<< "A", "l", " ", "B", "a" >>,
              "1990-02-02", FALSE, "/players/b/baal02.html"),
       Player(<< "J", "o", " ", "J", "o", " ", "C", "a" >>,
              "1980-01-01", FALSE, "/players/c/cajo01.html"),
       Player(<< "D", "e", " ", "C", "a" >>,
              "1970-03-03", TRUE, "/players/c/cade01.html") >>

PlayerDirectory == PlayerDirectoryInit(EmptyDict, EmptyDict, AllPlayers)

\* no call made yet
NoCall == [op |-> "none"]

\* the directory of cached files holds no file
NoFiles == [f \in {} |-> << >>]

\* no simulate() call is running
NoTrial == [pc |-> "idle"]

(***************************************************************************)
(* py/games.py: Standings.__init__.                                        *)
(***************************************************************************)
\* self.records = {team: Record(team) for team in TEAMS}
InitialRecords == [team \in TeamSet |-> Record(team)]

\* the loop body updating the home team's record only
StandingsInitBody_HomeOnly(recs, game) ==
    IF completed(game)
    THEN [recs EXCEPT ![game.home_team] = RecordUpdate(recs[game.home_team], game).val]
    ELSE recs

\* the body of `for game in games'
StandingsInitBody(recs, game) ==
    IF completed(game)
    THEN LET home == RecordUpdate(recs[game.home_team], game).val
             away == RecordUpdate(recs[game.away_team], game).val
         IN  [recs EXCEPT ![game.home_team] = home, ![game.away_team] = away]
    ELSE recs

Init ==
    /\ records = InitialRecords
    /\ games = << >>
    /\ _lookup = PlayerDirectory.val.lookup
    /\ _fragments_lookup = PlayerDirectory.val.fragments
    /\ call = NoCall
    /\ calls = 0
    /\ cache_files = NoFiles
    /\ today = 1
    /\ trial = NoTrial

\* one iteration of the constructor's loop on the next row of the fixture
ReadGame(result) ==
    /\ NextRow <= MaxGames
    /\ result \in FixtureRow(NextRow).results
    /\ LET f == FixtureRow(NextRow)
           game == Game(NextRow, f.home, f.away, result)
       IN  /\ games' = Append(games, game)
           /\ records' = StandingsInitBody(records, game)
           /\ UNCHANGED <<_lookup, _fragments_lookup, call, calls, cache_files, today, trial>>

Next == \E result \in Results \cup {<<r[3], r[4]>> : r \in SeqToSet(OpeningFixture)} :
            ReadGame(result)

Spec == Init /\ [][Next]_vars

(***************************************************************************)
(* A list in which a game object occurs more than once: the loop body runs *)
(* again on a game already applied.                                        *)
(***************************************************************************)
\* number of repeated elements the list may hold
MaxReplays == 1

Replays == Len(games) - Cardinality({games[i].row : i \in 1..Len(games)})

\* one iteration of the loop on the element read last, listed once more
ReadGameAgain ==
    /\ games # << >>
    /\ Replays < MaxReplays
    /\ LET game == games[Len(games)]
       IN  /\ games' = Append(games, game)
           /\ records' = StandingsInitBody(records, game)
           /\ UNCHANGED <<_lookup, _fragments_lookup, call, calls, cache_files, today, trial>>

NextReplay == Next \/ ReadGameAgain

SpecReplay == Init /\ [][NextReplay]_vars

(***************************************************************************)
(* Calls made directly on the objects and functions, with the arguments    *)
(* and the outcome of the last call kept in `call'.                        *)
(***************************************************************************)
\* number of calls made on the records or on the PlayerDirectory
MaxCalls == 2
\* length of the strings given to normalize_player_name
MaxNameLen == 4
\* number of words of a phrase given to Team.parse
MaxWords == 2
\* length of the short strings given to Team.parse
MaxAbbrevLen == 3

RECURSIVE StringsOver(_, _)
\* the strings of at most n characters of an alphabet
StringsOver(alphabet, n) ==
    IF n = 0 THEN {<< >>}
    ELSE LET shorter == StringsOver(alphabet, n - 1)
         IN  shorter \cup {Append(s, c) : s \in shorter, c \in alphabet}

RECURSIVE PhrasesOver(_, _)
\* the texts of at most n of the pieces, separated by one space
PhrasesOver(pieces, n) ==
    IF n = 0 THEN {<< >>}
    ELSE LET shorter == PhrasesOver(pieces, n - 1)
         IN  shorter \cup {IF s = << >> THEN p ELSE s \o << " " >> \o p :
                              s \in shorter, p \in pieces}

NameAlphabet == {"a", "B", "'", ".", " ", "é"}

SampleNames ==
    { << "B", ".", "J", ".", " ", "J", "o", "h", "n", "s", "o", "n" >>,
      << "A", "m", "a", "r", "'", "e", " ", "S", "t", "o", "u", "d", "e", "m", "i", "r", "e" >>,
      << "o", "'", "b", "r", "i", "e", "n", " ", "J", "o", "n", "e", "s" >>,
      << "B", "r", "i", "t", "t", "o", "n", " ", "J", "o", "h", "n", "s", "o", "n" >> }

NameInputs == StringsOver(NameAlphabet, MaxNameLen) \cup SampleNames

\* normalize_player_name(player_name)
NormalizeName(player_name) ==
    /\ call = NoCall
    /\ call' = [op |-> "normalize_player_name", arg |-> player_name,
                result |-> normalize_player_name(player_name)]
    /\ UNCHANGED <<records, games, _lookup, _fragments_lookup, calls, cache_files, today, trial>>

NextNormalize == \E player_name \in NameInputs : NormalizeName(player_name)

SpecNormalize == Init /\ [][NextNormalize]_vars

\* the abbrev and full_name fields of the teams of TEAMS, character by
\* character
Spelling ==
    [
      ATL |-> [abbrev |-> << "A", "T", "L" >>,
              full_name |-> << "A", "t", "l", "a", "n", "t", "a", " ", "H", "a", "w", "k", "s" >>],
      BOS |-> [abbrev |-> << "B", "O", "S" >>,
              full_name |-> << "B", "o", "s", "t", "o", "n", " ", "C", "e", "l", "t", "i", "c", "s" >>],
      BRK |-> [abbrev |-> << "B", "R", "K" >>,
              full_name |-> << "B", "r", "o", "o", "k", "l", "y", "n", " ", "N", "e", "t", "s" >>],
      CHH |-> [abbrev |-> << "C", "H", "H" >>,
              full_name |-> << "C", "h", "a", "r", "l", "o", "t", "t", "e", " ", "H", "o", "r", "n", "e", "t", "s" >>],
      CHI |-> [abbrev |-> << "C", "H", "I" >>,
              full_name |-> << "C", "h", "i", "c", "a", "g", "o", " ", "B", "u", "l", "l", "s" >>],
      CLE |-> [abbrev |-> << "C", "L", "E" >>,
              full_name |-> << "C", "l", "e", "v", "e", "l", "a", "n", "d", " ", "C", "a", "v", "a", "l", "i", "e", "r", "s" >>],
      DAL |-> [abbrev |-> << "D", "A", "L" >>,
              full_name |-> << "D", "a", "l", "l", "a", "s", " ", "M", "a", "v", "e", "r", "i", "c", "k", "s" >>],
      DEN |-> [abbrev |-> << "D", "E", "N" >>,
              full_name |-> << "D", "e", "n", "v", "e", "r", " ", "N", "u", "g", "g", "e", "t", "s" >>],
      DET |-> [abbrev |-> << "D", "E", "T" >>,
              full_name |-> << "D", "e", "t", "r", "o", "i", "t", " ", "P", "i", "s", "t", "o", "n", "s" >>],
      GSW |-> [abbrev |-> << "G", "S", "W" >>,
              full_name |-> << "G", "o", "l", "d", "e", "n", " ", "S", "t", "a", "t", "e", " ", "W", "a", "r", "r", "i", "o", "r", "s" >>],
      HOU |-> [abbrev |-> << "H", "O", "U" >>,
              full_name |-> << "H", "o", "u", "s", "t", "o", "n", " ", "R", "o", "c", "k", "e", "t", "s" >>],
      IND |-> [abbrev |-> << "I", "N", "D" >>,
              full_name |-> << "I", "n", "d", "i", "a", "n", "a", " ", "P", "a", "c", "e", "r", "s" >>],
      LAC |-> [abbrev |-> << "L", "A", "C" >>,
              full_name |-> << "L", "A", " ", "C", "l", "i", "p", "p", "e", "r", "s" >>],
      LAL |-> [abbrev |-> << "L", "A", "L" >>,
              full_name |-> << "L", "o", "s", " ", "A", "n", "g", "e", "l", "e", "s", " ", "L", "a", "k", "e", "r", "s" >>],
      MEM |-> [abbrev |-> << "M", "E", "M" >>,
              full_name |-> << "M", "e", "m", "p", "h", "i", "s", " ", "G", "r", "i", "z", "z", "l", "i", "e", "s" >>],
      MIA |-> [abbrev |-> << "M", "I", "A" >>,
              full_name |-> << "M", "i", "a", "m", "i", " ", "H", "e", "a", "t" >>],
      MIL |-> [abbrev |-> << "M", "I", "L" >>,
              full_name |-> << "M", "i", "l", "w", "a", "u", "k", "e", "e", " ", "B", "u", "c", "k", "s" >>],
      MIN |-> [abbrev |-> << "M", "I", "N" >>,
              full_name |-> << "M", "i", "n", "n", "e", "s", "o", "t", "a", " ", "T", "i", "m", "b", "e", "r", "w", "o", "l", "v", "e", "s" >>],
      NOP |-> [abbrev |-> << "N", "O", "P" >>,
              full_name |-> << "N", "e", "w", " ", "O", "r", "l", "e", "a", "n", "s", " ", "P", "e", "l", "i", "c", "a", "n", "s" >>],
      NYK |-> [abbrev |-> << "N", "Y", "K" >>,
              full_name |-> << "N", "e", "w", " ", "Y", "o", "r", "k", " ", "K", "n", "i", "c", "k", "s" >>],
      OKC |-> [abbrev |-> << "O", "K", "C" >>,
              full_name |-> << "O", "k", "l", "a", "h", "o", "m", "a", " ", "C", "i", "t", "y", " ", "T", "h", "u", "n", "d", "e", "r" >>],
      ORL |-> [abbrev |-> << "O", "R", "L" >>,
              full_name |-> << "O", "r", "l", "a", "n", "d", "o", " ", "M", "a", "g", "i", "c" >>],
      PHI |-> [abbrev |-> << "P", "H", "I" >>,
              full_name |-> << "P", "h", "i", "l", "a", "d", "e", "l", "p", "h", "i", "a", " ", "7", "6", "e", "r", "s" >>],
      PHO |-> [abbrev |-> << "P", "H", "O" >>,
              full_name |-> << "P", "h", "o", "e", "n", "i", "x", " ", "S", "u", "n", "s" >>],
      POR |-> [abbrev |-> << "P", "O", "R" >>,
              full_name |-> << "P", "o", "r", "t", "l", "a", "n", "d", " ", "T", "r", "a", "i", "l", " ", "B", "l", "a", "z", "e", "r", "s" >>],
      SAC |-> [abbrev |-> << "S", "A", "C" >>,
              full_name |-> << "S", "a", "c", "r", "a", "m", "e", "n", "t", "o", " ", "K", "i", "n", "g", "s" >>],
      SAS |-> [abbrev |-> << "S", "A", "S" >>,
              full_name |-> << "S", "a", "n", " ", "A", "n", "t", "o", "n", "i", "o", " ", "S", "p", "u", "r", "s" >>],
      TOR |-> [abbrev |-> << "T", "O", "R" >>,
              full_name |-> << "T", "o", "r", "o", "n", "t", "o", " ", "R", "a", "p", "t", "o", "r", "s" >>],
      UTA |-> [abbrev |-> << "U", "T", "A" >>,
              full_name |-> << "U", "t", "a", "h", " ", "J", "a", "z", "z" >>],
      WAS |-> [abbrev |-> << "W", "A", "S" >>,
              full_name |-> << "W", "a", "s", "h", "i", "n", "g", "t", "o", "n", " ", "W", "i", "z", "a", "r", "d", "s" >>] ]

\* Team.nickname on the characters: full_name.split()[-1]
NicknameSpelling(team) ==
    LET words == split(Spelling[team].full_name) IN words[Len(words)]

\* the strings the catalog holds for the teams of TEAMS
CatalogStrings ==
    UNION {{Spelling[team].abbrev, Spelling[team].full_name, NicknameSpelling(team)} :
              team \in TeamSet}

AbbrevAlphabet == {"B", "b", "R", "r", "K", "k", "N", "n"}

TeamWords ==
    { << "B", "o", "s", "t", "o", "n" >>,
      << "C", "e", "l", "t", "i", "c", "s" >>,
      << "C", "E", "L", "T", "I", "C", "S" >>,
      << "H", "o", "r", "n", "e", "t", "s" >>,
      << "T", "r", "a", "i", "l" >>,
      << "B", "l", "a", "z", "e", "r", "s" >> }

TeamInputs == StringsOver(AbbrevAlphabet, MaxAbbrevLen) \cup PhrasesOver(TeamWords, MaxWords)

\* Team.parse(s)
ParseTeam(s) ==
    /\ call = NoCall
    /\ call' = [op |-> "Team.parse", arg |-> s, result |-> parse(s)]
    /\ UNCHANGED <<records, games, _lookup, _fragments_lookup, calls, cache_files, today, trial>>

NextParse == \E s \in TeamInputs \cup CatalogStrings : ParseTeam(s)

SpecParse == Init /\ [][NextParse]_vars

\* the teams and pairings of the games given to Record.update: the same
\* division, the same conference only, the other conference
UpdateTeams == {"BOS", "NYK", "LAL"}

UpdatePairings == {<<"BOS", "NYK">>, <<"NYK", "BOS">>, <<"ATL", "BOS">>, <<"BOS", "LAL">>}

\* the Result column of the games given to Record.update
UpdateResults == {<< >>, <<100, 100>>, <<100, 103>>, <<103, 100>>}

\* self.records[team].update(game)
UpdateRecord(team, game) ==
    /\ calls < MaxCalls
    /\ LET updated == RecordUpdate(records[team], game)
       IN  /\ records' = [records EXCEPT ![team] = updated.val]
           /\ call' = [op |-> "Record.update", team |-> team, game |-> game,
                       result |-> [err |-> updated.err]]
    /\ calls' = calls + 1
    /\ UNCHANGED <<games, _lookup, _fragments_lookup, cache_files, today, trial>>

NextUpdate ==
    \E team \in UpdateTeams, pairing \in UpdatePairings, result \in UpdateResults :
        UpdateRecord(team, Game(calls + 1, pairing[1], pairing[2], result))

SpecUpdate == Init /\ [][NextUpdate]_vars

\* the names looked up with get
GetNames ==
    { << "A", "l", " ", "B", "a" >>,
      << "D", "e", " ", "C", "a" >>,
      << "J", "o", " ", "J", "o", " ", "C", "a" >>,
      << "Z", "u", " ", "B", "a" >>,
      << "A", ".", "l", " ", "B", "a" >> }

\* the names given to get_candidate_matches
CandidateNames ==
    { << "A", "l", " ", "B", "a" >>,
      << "A", ".", "l", " ", "B", "a" >>,
      << "J", "o", " ", "B", "a" >>,
      << "J", "o", " ", "J", "o", " ", "C", "a" >>,
      << "C", "a" >>,
      << "A", "l", " ", "(", "B", "a", ")" >>,
      << "A", "l", " ", "/", " ", "D", "e" >>,
      << "Z", "u" >>,
      << "O", "'" >>,
      << "A", "l", " ", "(", "O", "'", ")", " ", "Z", "u" >>,
      << "D", "e", " ", "(", "J", "o", " ", "J", "o", ")" >>,
      << "B", ".", "a", " ", "B", "a" >>,
      << >>,
      << "A", "l", " ", "C", "a" >> }

Birthdates == {AllPlayers[i].birthdate : i \in 1..Len(AllPlayers)}

\* directory.get(name, birthdate)
GetPlayer(name, birthdate) ==
    /\ calls < MaxCalls
    /\ call' = [op |-> "get", name |-> name, birthdate |-> birthdate,
                result |-> get(_lookup, name, birthdate)]
    /\ calls' = calls + 1
    /\ UNCHANGED <<records, games, _lookup, _fragments_lookup, cache_files, today, trial>>

\* directory.get_candidate_matches(name), the set of tokens iterated in `order'
GetCandidateMatches(name, order) ==
    /\ calls < MaxCalls
    /\ order \in IterationOrders(CandidateTokens(name))
    /\ LET matches == get_candidate_matches(_lookup, _fragments_lookup, name, order)
       IN  /\ call' = [op |-> "get_candidate_matches", name |-> name,
                       result |-> [err |-> matches.err, val |-> matches.val]]
           /\ _fragments_lookup' = matches.fragments
    /\ calls' = calls + 1
    /\ UNCHANGED <<records, games, _lookup, cache_files, today, trial>>

NextDirectory ==
    \/ \E name \in GetNames, birthdate \in Birthdates \cup {NoBirthdate} :
           GetPlayer(name, birthdate)
    \/ \E name \in CandidateNames :
           \E order \in IterationOrders(CandidateTokens(name)) :
               GetCandidateMatches(name, order)

SpecDirectory == Init /\ [][NextDirectory]_vars

(***************************************************************************)
(* Game objects (py/games.py) and GameData objects (py/bball_reference.py) *)
(* compared, hashed and collected in a set.  An object is its fields and   *)
(* `id', the identity the interpreter gives every object it constructs.    *)
(***************************************************************************)
Digits == << "0", "1", "2", "3", "4", "5", "6", "7", "8", "9" >>

RECURSIVE Number(_)
\* int(s) on a string of digits
Number(s) ==
    IF s = << >> THEN 0
    ELSE 10 * Number(SubSeq(s, 1, Len(s) - 1)) + (LetterIndex(Digits, s[Len(s)]) - 1)

\* datetime.datetime.strptime(s, '%d/%m/%Y').date() on day/month/year
StrptimeDayMonthYear(s) ==
    LET i == find(s, "/")
        rest == Slice(s, i + 1, Len(s))
        j == find(rest, "/")
    IN  [year |-> Number(Slice(rest, j + 1, Len(rest))),
         month |-> Number(Slice(rest, 1, j - 1)),
         day |-> Number(Slice(s, 1, i - 1))]

\* the Game object Game.__init__ leaves for a row of the fixture file
GameObject(id, row) ==
    [class |-> "Game", id |-> id, date |-> StrptimeDayMonthYear(split(row.Date)[1])]
    @@ Game(id, row.home, row.away, row.result)

\* GameData.__init__
GameData(id, dt, game_type, home_team, away_team, scores) ==
    [class |-> "GameData", id |-> id, dt |-> dt, game_type |-> game_type,
     home_team |-> home_team, away_team |-> away_team,
     home_score |-> IF scores = << >> THEN "None" ELSE scores[1],
     away_score |-> IF scores = << >> THEN "None" ELSE scores[2],
     home_team_days_rest |-> "None", away_team_days_rest |-> "None"]

\* a == b: GameData.__eq__ compares (dt, home_team, away_team); Game defines
\* no __eq__ and inherits object's, which is `a is b'
ObjectEq(a, b) ==
    IF a.class = "GameData"
    THEN <<a.dt, a.home_team, a.away_team>> = <<b.dt, b.home_team, b.away_team>>
    ELSE a.id = b.id

\* hash(a): GameData.__hash__ hashes the tuple (equal tuples, equal
\* hashes); Game inherits object's, which is derived from the identity
ObjectHash(a) ==
    IF a.class = "GameData" THEN <<a.dt, a.home_team, a.away_team>> ELSE a.id

\* set.add(x): x is left out if an element with the hash of x is x or
\* equals x
SetAdd(elements, x) ==
    IF \E i \in 1..Len(elements) :
           /\ ObjectHash(elements[i]) = ObjectHash(x)
           /\ (elements[i].id = x.id \/ ObjectEq(elements[i], x))
    THEN elements
    ELSE Append(elements, x)

RECURSIVE SetOf(_)
\* set(objects), its elements in the order they were added
SetOf(objects) ==
    IF objects = << >> THEN << >>
    ELSE SetAdd(SetOf(SubSeq(objects, 1, Len(objects) - 1)), objects[Len(objects)])

\* the Date column of the rows: day/month/year and the time
DateColumns ==
    { << "1", "8", "/", "1", "0", "/", "2", "0", "2", "2", " ", "2", "3", ":", "3", "0" >>,
      << "1", "8", "/", "1", "0", "/", "2", "0", "2", "2", " ", "0", "2", ":", "0", "0" >>,
      << "1", "9", "/", "1", "0", "/", "2", "0", "2", "2", " ", "2", "3", ":", "3", "0" >> }

KeyPairings == {<<"BOS", "NYK">>, <<"NYK", "BOS">>, <<"BOS", "LAL">>}

KeyResults == {<< >>, <<100, 103>>, <<103, 100>>}

\* rows of the fixture file
KeyRows ==
    {[Date |-> date, home |-> p[1], away |-> p[2], result |-> r] :
        date \in DateColumns, p \in KeyPairings, r \in KeyResults}

\* the dates of the game logs
KeyDates == {[year |-> 2022, month |-> 10, day |-> 18], [year |-> 2022, month |-> 10, day |-> 19]}

\* the results of comparing, hashing and collecting two objects
Compared(op, a, b) ==
    [op |-> op, a |-> a, b |-> b, result |-> ObjectEq(a, b),
     hashes |-> <<ObjectHash(a), ObjectHash(b)>>, set |-> SetOf(<<a, b>>)]

\* two Game objects built from two rows, or one object taken twice
CompareGames(row1, row2, same_object) ==
    /\ call = NoCall
    /\ LET a == GameObject(1, row1)
           b == IF same_object THEN a ELSE GameObject(2, row2)
       IN  call' = Compared("Game.__eq__", a, b)
    /\ UNCHANGED <<records, games, _lookup, _fragments_lookup, calls, cache_files, today, trial>>

\* two GameData objects, as the game logs of the two teams yield them
CompareGameData(dt1, dt2, pairing1, pairing2, scores1, scores2, game_type) ==
    /\ call = NoCall
    /\ LET a == GameData(1, dt1, game_type, pairing1[1], pairing1[2], scores1)
           b == GameData(2, dt2, game_type, pairing2[1], pairing2[2], scores2)
       IN  call' = Compared("GameData.__eq__", a, b)
    /\ UNCHANGED <<records, games, _lookup, _fragments_lookup, calls, cache_files, today, trial>>

NextGameKeys ==
    \/ \E row1, row2 \in KeyRows, same_object \in BOOLEAN :
           CompareGames(row1, row2, same_object)
    \/ \E dt1, dt2 \in KeyDates, pairing1, pairing2 \in KeyPairings,
          scores1, scores2 \in KeyResults, game_type \in {"REGULAR_SEASON", "PLAYOFFS"} :
           CompareGameData(dt1, dt2, pairing1, pairing2, scores1, scores2, game_type)

SpecGameKeys == Init /\ [][NextGameKeys]_vars

(***************************************************************************)
(* py/web.py: the cache of fetched texts.  A file of `cache_files' is      *)
(* [data, mdate]: the characters written and the date of the write.  The   *)
(* answer of the server to a request is an input of fetch.                 *)
(***************************************************************************)
\* number of days the clock runs
MaxDays == 3

\* repo.downloads()
Downloads == << "d", "o", "w", "n", "l", "o", "a", "d", "s" >>

\* os.path.join(directory, netloc, rest): a rest that starts with the
\* separator replaces what is before it
PathJoin(directory, netloc, rest) ==
    IF rest # << >> /\ Head(rest) = "/" THEN rest
    ELSE directory \o << "/" >> \o netloc \o << "/" >> \o rest

RECURSIVE StripSlashes(_)
\* while cached_file.endswith('/'): cached_file = cached_file[:-1]
StripSlashes(s) ==
    IF s # << >> /\ s[Len(s)] = "/" THEN StripSlashes(SubSeq(s, 1, Len(s) - 1)) ELSE s

\* query.replace('/', '_').replace('?', '_').replace('&', '_').replace('=', '_')
SanitizedQuery(query) ==
    [i \in 1..Len(query) |-> IF query[i] \in {"/", "?", "&", "="} THEN "_" ELSE query[i]]

\* url is the URL as urlparse splits it, without params and fragment
url_to_cached_file(url) ==
    LET cached_file == StripSlashes(PathJoin(Downloads, url.netloc,
                                             Slice(url.path, 2, Len(url.path))))
        with_query == IF url.query # << >>
                      THEN cached_file \o << "_", "_" >> \o SanitizedQuery(url.query)
                      ELSE cached_file
    IN  Str(with_query \o << ".", "c", "a", "c", "h", "e" >>)

\* os.linesep
linesep == << "\n" >>

RECURSIVE WriteText(_)
\* f.write(text) on a file opened with open(path, 'w'): every '\n' is
\* written as os.linesep
WriteText(text) ==
    IF text = << >> THEN << >>
    ELSE (IF Head(text) = "\n" THEN linesep ELSE << Head(text) >>) \o WriteText(Tail(text))

RECURSIVE ReadText(_)
\* f.read() on a file opened with open(path, 'r'): '\r\n' and '\r' are
\* read as '\n'
ReadText(data) ==
    IF data = << >> THEN << >>
    ELSE IF Head(data) = "\r"
         THEN << "\n" >> \o ReadText(IF Len(data) > 1 /\ data[2] = "\n"
                                       THEN SubSeq(data, 3, Len(data)) ELSE Tail(data))
    ELSE << Head(data) >> \o ReadText(Tail(data))

check_cached_file(files, now, cached_file, force_refresh, stale_is_ok, stale_window_in_days) ==
    IF force_refresh THEN FALSE
    ELSE IF cached_file \notin DOMAIN files THEN FALSE
    ELSE IF stale_is_ok THEN TRUE
    ELSE files[cached_file].mdate > now - stale_window_in_days

\* response.raise_for_status()
raise_for_status(response) ==
    IF 400 <= response.status_code /\ response.status_code < 600
    THEN Raise("HTTPError") ELSE Ok(<< >>)

\* fetch writing the text of the response before raise_for_status is called
fetch_WritesBeforeStatusCheck(files, now, url, force_refresh, stale_is_ok, stale_window_in_days, response) ==
    LET cached_file == url_to_cached_file(url)
    IN  IF check_cached_file(files, now, cached_file, force_refresh, stale_is_ok,
                             stale_window_in_days)
        THEN [result |-> Ok(ReadText(files[cached_file].data)), files |-> files,
              requested |-> FALSE]
        ELSE IF response.error # ""
        THEN [result |-> Raise(response.error), files |-> files, requested |-> TRUE]
        ELSE LET written == (cached_file :> [data |-> WriteText(response.text),
                                             mdate |-> now]) @@ files
             IN  IF Raised(raise_for_status(response))
                 THEN [result |-> raise_for_status(response), files |-> written,
                       requested |-> TRUE]
                 ELSE [result |-> Ok(response.text), files |-> written, requested |-> TRUE]

\* fetch: the text returned or the exception raised, the files it leaves
\* and whether requests.get was called
fetch(files, now, url, force_refresh, stale_is_ok, stale_window_in_days, response) ==
    LET cached_file == url_to_cached_file(url)
    IN  IF check_cached_file(files, now, cached_file, force_refresh, stale_is_ok,
                             stale_window_in_days)
        THEN [result |-> Ok(ReadText(files[cached_file].data)), files |-> files,
              requested |-> FALSE]
        ELSE IF response.error # ""
        THEN [result |-> Raise(response.error), files |-> files, requested |-> TRUE]
        ELSE IF Raised(raise_for_status(response))
        THEN [result |-> raise_for_status(response), files |-> files, requested |-> TRUE]
        ELSE [result |-> Ok(response.text),
              files |-> (cached_file :> [data |-> WriteText(response.text),
                                         mdate |-> now]) @@ files,
              requested |-> TRUE]

\* the URLs fetched: two that share a cached file and one with a query
Urls ==
    { [netloc |-> << "h" >>, path |-> << "/", "a" >>, query |-> << >>],
      [netloc |-> << "h" >>, path |-> << "/", "a", "/" >>, query |-> << >>],
      [netloc |-> << "h" >>, path |-> << "/", "a" >>, query |-> << "x", "=", "1" >>] }

\* the texts the server sends: one line, and two lines ended by '\r\n'
Texts == { << "a" >>, << "a", "\r", "\n", "b", "\r", "\n" >> }

\* requests.get raises, or returns a response with a status and a text
Responses ==
    { [error |-> "ConnectionError", status_code |-> 0, text |-> << >>],
      [error |-> "", status_code |-> 404, text |-> << "a" >>] }
    \cup { [error |-> "", status_code |-> 200, text |-> t] : t \in Texts }

StaleWindows == {1, 2}

\* web.fetch(url, force_refresh, stale_is_ok, stale_window_in_days)
Fetch(url, force_refresh, stale_is_ok, stale_window_in_days, response) ==
    /\ calls < MaxCalls
    /\ LET r == fetch(cache_files, today, url, force_refresh, stale_is_ok,
                      stale_window_in_days, response)
       IN  /\ cache_files' = r.files
           /\ call' = [op |-> "web.fetch", url |-> url, force_refresh |-> force_refresh,
                       stale_is_ok |-> stale_is_ok,
                       stale_window_in_days |-> stale_window_in_days,
                       response |-> response,
                       requested |-> r.requested, result |-> r.result]
    /\ calls' = calls + 1
    /\ UNCHANGED <<records, games, _lookup, _fragments_lookup, today, trial>>

\* midnight: datetime.date.today() is the next day
NextDay ==
    /\ today < MaxDays
    /\ today' = today + 1
    /\ UNCHANGED <<records, games, _lookup, _fragments_lookup, call, calls, cache_files, trial>>

NextWeb ==
    \/ \E url \in Urls, force_refresh, stale_is_ok \in BOOLEAN,
          stale_window_in_days \in StaleWindows, response \in Responses :
           Fetch(url, force_refresh, stale_is_ok, stale_window_in_days, response)
    \/ NextDay

SpecWeb == Init /\ [][NextWeb]_vars

(***************************************************************************)
(* py/bet_predictor_2024.py: BetPredictor.simulate(), one Monte Carlo      *)
(* trial.  The predictor holds the base game list and the base standings   *)
(* (`games' and `records'); `trial' holds the local variables of the       *)
(* running call.  The random numbers of a trial are a stream of outcomes,  *)
(* TRUE when the home team wins, read cyclically.  The constructor         *)
(* Game('Sim', home, away), Game.simulate and Standings.update are called  *)
(* by the predictor but are not part of py/games.py; they are taken from   *)
(* the description of the simulation driver: every game is decided by a    *)
(* single draw and the standings copy is updated with it.                  *)
(***************************************************************************)
\* the k-th draw of a trial (k counts from 0)
Draw(draws, k) == draws[(k % Len(draws)) + 1]

\* Game('Sim', home_team, away_team)
SimGame(home_team, away_team) == Game("Sim", home_team, away_team, << >>)

\* game.simulate(home_team_win_pct) with the outcome of its draw
Game_simulate(game, home_team_wins) ==
    [game EXCEPT !.winner = IF home_team_wins THEN game.home_team ELSE game.away_team,
                 !.loser  = IF home_team_wins THEN game.away_team ELSE game.home_team]

\* a simulated game counted in the record of one of its teams
RecordSimulated(record, game) ==
    LET won == game.winner = record.team
        other == IF game.home_team = record.team THEN game.away_team ELSE game.home_team
        r1 == [record EXCEPT !.overall_win_loss = WinLossUpdate(@, won),
                             !.win_loss_by_team[other] = WinLossUpdate(@, won)]
        r2 == IF teams_are_in_same_conference(game)
              THEN [r1 EXCEPT !.conference_win_loss = WinLossUpdate(@, won)]
              ELSE r1
    IN  IF teams_are_in_same_division(game)
        THEN [r2 EXCEPT !.division_win_loss = WinLossUpdate(@, won)]
        ELSE r2

\* standings.update(game)
Standings_update(recs, game) ==
    LET home == RecordSimulated(recs[game.home_team], game)
        away == RecordSimulated(recs[game.away_team], game)
    IN  [recs EXCEPT ![game.home_team] = home, ![game.away_team] = away]

\* Standings(games): the constructor's loop over a whole list
RECURSIVE StandingsOf(_, _)
StandingsOf(recs, gs) ==
    IF gs = << >> THEN recs
    ELSE StandingsOf(StandingsInitBody(recs, Head(gs)), Tail(gs))

\* get_games(): the rows of the fixture, the remaining ones not yet played
get_games ==
    [row \in 1..MaxGames |->
        LET f == FixtureRow(row)
        IN  Game(row, f.home, f.away,
                 IF row <= Len(OpeningFixture) THEN CHOOSE r \in f.results : TRUE
                 ELSE << >>)]

\* copy.deepcopy(x): a new object with the same value; a local variable
\* holds the object it refers to
deepcopy_SameObject(x) == [ref |-> "self", val |-> x]

deepcopy(x) == [ref |-> "copy", val |-> x]

\* the value of the object a local variable refers to
Deref(local, base) == IF local.ref = "self" THEN base ELSE local.val

\* the object a local variable refers to after a mutation
Mutated(local, value) == IF local.ref = "self" THEN local ELSE [local EXCEPT !.val = value]

\* the base object after a mutation through a local variable
BaseAfter(local, base, value) == IF local.ref = "self" THEN value ELSE base

\* PlayoffRecord.__init__
PlayoffRecord(standings, east_teams, west_teams) ==
    LET both == east_teams \o west_teams
        east == SeqToSet(east_teams)
        west == SeqToSet(west_teams)
        last(s, team) == CHOOSE t \in 1..Len(s) :
                            s[t] = team /\ \A u \in 1..Len(s) : s[u] = team => u <= t
    IN  [standings |-> standings,
         east_teams |-> east_teams,
         west_teams |-> west_teams,
         seeds |-> [team \in east \cup west |->
                       IF team \in west THEN last(west_teams, team)
                       ELSE last(east_teams, team)],
         win_counts |-> [team \in SeqToSet(both) |-> 0],
         log |-> << >>]

\* the loop of PlayoffRecord.update over the series k, k + 1, ...
RECURSIVE PlayoffRecordLog(_, _, _, _)
PlayoffRecordLog(self, teams, win_counts, k) ==
    LET n == Len(teams) IN
    IF k >= n \div 2 THEN Ok(self)
    ELSE LET top_team == teams[k + 1]
             bot_team == teams[n - k]
             top_seed == self.seeds[top_team]
             bot_seed == self.seeds[bot_team]
             top_wins == win_counts[top_team]
             bot_wins == win_counts[bot_team]
             line == IF top_wins = 4
                     THEN <<top_team, top_seed, bot_team, bot_seed, top_wins, bot_wins>>
                     ELSE <<bot_team, bot_seed, top_team, top_seed, bot_wins, top_wins>>
             logged == [self EXCEPT !.log = Append(@, line)]
             max == IF top_wins > bot_wins THEN top_wins ELSE bot_wins
             min == IF top_wins < bot_wins THEN top_wins ELSE bot_wins
         IN  IF max # 4 \/ ~(min < 4)
             THEN [err |-> "AssertionError", val |-> logged]
             ELSE PlayoffRecordLog(logged, teams, win_counts, k + 1)

\* PlayoffRecord.update
PlayoffRecord_update(self, teams, win_counts) ==
    IF ~(DOMAIN win_counts \subseteq DOMAIN self.win_counts)
    THEN [err |-> "KeyError", val |-> self]
    ELSE LET added == [team \in DOMAIN self.win_counts |->
                          self.win_counts[team]
                          + (IF team \in DOMAIN win_counts THEN win_counts[team] ELSE 0)]
         IN  PlayoffRecordLog([self EXCEPT !.win_counts = added], teams, win_counts, 0)

top_seed_home_court_list == <<1, 1, 0, 0, 1, 0, 1>>

\* the inner loop of simulate_playoff_round from game g of a series on
RECURSIVE PlaySeries(_, _, _, _, _, _, _)
PlaySeries(top_seed, bot_seed, win_counts, g, draws, used, played) ==
    IF g > Len(top_seed_home_court_list)
    THEN [win_counts |-> win_counts, used |-> used, games |-> played]
    ELSE LET top_seed_home_court == top_seed_home_court_list[g] = 1
             home_team == IF top_seed_home_court THEN top_seed ELSE bot_seed
             away_team == IF top_seed_home_court THEN bot_seed ELSE top_seed
             game == Game_simulate(SimGame(home_team, away_team), Draw(draws, used))
             counted == [win_counts EXCEPT ![game.winner] = @ + 1]
         IN  IF counted[game.winner] = 4
             THEN [win_counts |-> counted, used |-> used + 1,
                   games |-> Append(played, game)]
             ELSE PlaySeries(top_seed, bot_seed, counted, g + 1, draws, used + 1,
                             Append(played, game))

\* the outer loop of simulate_playoff_round from series i on
RECURSIVE PlayRound(_, _, _, _, _, _)
PlayRound(teams, i, win_counts, draws, used, series) ==
    LET n == Len(teams) IN
    IF i >= n \div 2
    THEN [win_counts |-> win_counts, used |-> used, series |-> series]
    ELSE LET s == PlaySeries(teams[i + 1], teams[n - i], win_counts, 1, draws, used, << >>)
         IN  PlayRound(teams, i + 1, s.win_counts, draws, s.used,
                       Append(series, s.games))

\* the teams of a list that satisfy a test, in the order of the list
RECURSIVE Filter(_, _)
Filter(s, keep) ==
    IF s = << >> THEN << >>
    ELSE (IF keep[Head(s)] THEN <<Head(s)>> ELSE << >>) \o Filter(Tail(s), keep)

\* simulate_playoff_round: the winners, the record updated, the draws used
\* and the games of every series
simulate_playoff_round(teams, playoff_record, draws, used) ==
    LET n == Len(teams)
        round == PlayRound(teams, 0, [t \in SeqToSet(teams) |-> 0], draws, used, << >>)
        win_counts == round.win_counts
        winners == Filter(teams, [t \in SeqToSet(teams) |-> win_counts[t] = 4])
        updated == PlayoffRecord_update(playoff_record, teams, win_counts)
        outcome == [teams |-> teams, win_counts |-> win_counts, series |-> round.series,
                    winners |-> winners, used |-> round.used,
                    playoff_record |-> updated.val]
    IN  IF Len(winners) # n \div 2
        THEN [err |-> "AssertionError",
              val |-> [outcome EXCEPT !.playoff_record = playoff_record]]
        ELSE [err |-> updated.err, val |-> outcome]

\* simulate_play_in_tournament: the 8 seeds, the games played and the draws
\* used
simulate_play_in_tournament(seeding, draws, used) ==
    IF Len(seeding) # 10 THEN Raise("AssertionError")
    ELSE LET game_7_v_8 ==
                 Game_simulate(SimGame(seeding[7], seeding[8]), Draw(draws, used))
             game_9_v_10 ==
                 Game_simulate(SimGame(seeding[9], seeding[10]), Draw(draws, used + 1))
             seven_seed == game_7_v_8.winner
             eighth_seed_game ==
                 Game_simulate(SimGame(game_7_v_8.loser, game_9_v_10.winner),
                               Draw(draws, used + 2))
             eighth_seed == eighth_seed_game.winner
         IN  Ok([seeding |-> seeding,
                 games |-> <<game_7_v_8, game_9_v_10, eighth_seed_game>>,
                 used |-> used + 3,
                 result |-> Take(seeding, 6) \o <<seven_seed, eighth_seed>>])

\* n copies of a block of draws
RECURSIVE Repeat(_, _)
Repeat(block, n) == IF n = 0 THEN << >> ELSE block \o Repeat(block, n - 1)

\* the draws of a series the better seed wins in four games, and of one the
\* other team wins in four games
TopSweeps == <<TRUE, TRUE, FALSE, FALSE>>

BottomSweeps == <<FALSE, FALSE, TRUE, TRUE>>

\* the away team wins the four remaining games of the season; in the east
\* play-in the away team, the home team and the away team win; the better
\* seeds sweep in the east and the other teams in the west
SweepStream ==
    Repeat(<<FALSE>>, 4) \o <<FALSE, TRUE, FALSE>> \o Repeat(<<FALSE>>, 3)
    \o Repeat(TopSweeps, 4) \o Repeat(BottomSweeps, 4)
    \o Repeat(TopSweeps, 2) \o Repeat(BottomSweeps, 2)
    \o TopSweeps \o BottomSweeps

\* the streams of draws a trial may get
DrawStreams ==
    { <<TRUE>>, <<FALSE>>, SweepStream,
      <<FALSE, FALSE, FALSE, FALSE, TRUE>>,
      <<FALSE, FALSE, FALSE, FALSE, TRUE, FALSE>>,
      <<FALSE, FALSE, FALSE, FALSE, TRUE, TRUE>>,
      <<FALSE, FALSE, FALSE, FALSE, FALSE, TRUE>> }

\* the trials finished so far, each with its draws and what it returned
PastTrials == IF call.op = "simulate" THEN call.trials ELSE << >>

\* simulate() returns or raises: the caller holds the outcome
SimulateReturn(result, play_ins, rounds) ==
    /\ call' = [op |-> "simulate", draws |-> trial.draws, result |-> result,
                play_ins |-> play_ins, rounds |-> rounds,
                trials |-> Append(PastTrials, [draws |-> trial.draws, result |-> result])]
    /\ calls' = calls + 1
    /\ trial' = NoTrial

\* the first two statements of simulate()
SimulateBegin(draws) ==
    /\ trial = NoTrial
    /\ calls < MaxCalls
    /\ trial' = [pc |-> "season", draws |-> draws, used |-> 0,
                 standings |-> deepcopy(records), games |-> deepcopy(games),
                 east |-> << >>, west |-> << >>, play_ins |-> << >>,
                 playoff_record |-> << >>, rounds |-> << >>]
    /\ UNCHANGED <<records, games, _lookup, _fragments_lookup, call, calls, cache_files, today>>

\* the uncompleted games of the trial's list
Uncompleted(gs) == {i \in 1..Len(gs) : ~completed(gs[i])}

\* one iteration of `for game in games' on the next uncompleted game
SimulateSeasonGame ==
    /\ trial.pc = "season"
    /\ LET gs == Deref(trial.games, games)
           standings == Deref(trial.standings, records)
       IN  /\ Uncompleted(gs) # {}
           /\ LET i == CHOOSE i \in Uncompleted(gs) : \A j \in Uncompleted(gs) : i <= j
                  game == Game_simulate(gs[i], Draw(trial.draws, trial.used))
                  simulated == [gs EXCEPT ![i] = game]
                  updated == Standings_update(standings, game)
              IN  /\ trial' = [trial EXCEPT !.games = Mutated(@, simulated),
                                            !.standings = Mutated(@, updated),
                                            !.used = @ + 1]
                  /\ games' = BaseAfter(trial.games, games, simulated)
                  /\ records' = BaseAfter(trial.standings, records, updated)
    /\ UNCHANGED <<_lookup, _fragments_lookup, call, calls, cache_files, today>>

\* the statements after standings.playoff_seeding() returned or raised
SeedingDone(seeding) ==
    IF Raised(seeding)
    THEN SimulateReturn(Raise(seeding.err), << >>, << >>)
    ELSE /\ trial' = [trial EXCEPT !.pc = "play_in",
                                   !.east = seeding.val.east_seeding,
                                   !.west = seeding.val.west_seeding]
         /\ UNCHANGED <<call, calls>>

\* seeding = standings.playoff_seeding(), after the loop
SimulateSeeding ==
    /\ trial.pc = "season"
    /\ Uncompleted(Deref(trial.games, games)) = {}
    /\ SeedingDone(playoff_seeding(Deref(trial.standings, records)))
    /\ UNCHANGED <<records, games, _lookup, _fragments_lookup, cache_files, today>>

\* east_seeding8 = ..., then west_seeding8 = ... and the PlayoffRecord
SimulatePlayIn ==
    /\ trial.pc = "play_in"
    /\ LET east == trial.play_ins = << >>
           seeding == IF east THEN trial.east ELSE trial.west
           p == simulate_play_in_tournament(seeding, trial.draws, trial.used)
       IN  IF Raised(p)
           THEN SimulateReturn(Raise(p.err), trial.play_ins, << >>)
           ELSE /\ trial' =
                     IF east
                     THEN [trial EXCEPT !.east = p.val.result,
                                        !.used = p.val.used,
                                        !.play_ins = Append(@, p.val)]
                     ELSE [trial EXCEPT !.west = p.val.result,
                                        !.used = p.val.used,
                                        !.play_ins = Append(@, p.val),
                                        !.pc = "round",
                                        !.playoff_record =
                                            PlayoffRecord(Deref(trial.standings, records),
                                                          trial.east, p.val.result)]
                /\ UNCHANGED <<call, calls>>
    /\ UNCHANGED <<records, games, _lookup, _fragments_lookup, cache_files, today>>

\* the next of the six calls of simulate_playoff_round within the
\* conferences: east, west, east, west, east, west
SimulateRound ==
    /\ trial.pc = "round"
    /\ LET east == Len(trial.rounds) % 2 = 0
           teams == IF east THEN trial.east ELSE trial.west
           r == simulate_playoff_round(teams, trial.playoff_record, trial.draws, trial.used)
           rounds == Append(trial.rounds, r.val)
       IN  IF Raised(r)
           THEN SimulateReturn(Raise(r.err), trial.play_ins, rounds)
           ELSE /\ trial' = [trial EXCEPT !.east = IF east THEN r.val.winners ELSE @,
                                          !.west = IF east THEN @ ELSE r.val.winners,
                                          !.used = r.val.used,
                                          !.playoff_record = r.val.playoff_record,
                                          !.rounds = rounds,
                                          !.pc = IF Len(rounds) = 6 THEN "finals" ELSE "round"]
                /\ UNCHANGED <<call, calls>>
    /\ UNCHANGED <<records, games, _lookup, _fragments_lookup, cache_files, today>>

\* return playoff_record, or the exception of the last round
FinalsDone(r) ==
    IF Raised(r)
    THEN SimulateReturn(Raise(r.err), trial.play_ins, Append(trial.rounds, r.val))
    ELSE SimulateReturn(Ok(r.val.playoff_record), trial.play_ins, Append(trial.rounds, r.val))

\* the statements after determine_finals_home_court_advantage returned or
\* raised
HomeCourtDone(home, east_champion, west_champion) ==
    IF Raised(home)
    THEN SimulateReturn(Raise(home.err), trial.play_ins, trial.rounds)
    ELSE FinalsDone(simulate_playoff_round(
                        <<home.val,
                          IF home.val = west_champion THEN east_champion ELSE west_champion>>,
                        trial.playoff_record, trial.draws, trial.used))

\* the finals and the return
SimulateFinals ==
    /\ trial.pc = "finals"
    /\ HomeCourtDone(determine_finals_home_court_advantage(
                         Deref(trial.standings, records), trial.east[1], trial.west[1]),
                     trial.east[1], trial.west[1])
    /\ UNCHANGED <<records, games, _lookup, _fragments_lookup, cache_files, today>>

\* the predictor after its constructor
InitSimulate ==
    /\ games = get_games
    /\ records = StandingsOf(InitialRecords, get_games)
    /\ _lookup = PlayerDirectory.val.lookup
    /\ _fragments_lookup = PlayerDirectory.val.fragments
    /\ call = NoCall
    /\ calls = 0
    /\ cache_files = NoFiles
    /\ today = 1
    /\ trial = NoTrial

NextSimulate ==
    \/ \E draws \in DrawStreams : SimulateBegin(draws)
    \/ SimulateSeasonGame
    \/ SimulateSeeding
    \/ SimulatePlayIn
    \/ SimulateRound
    \/ SimulateFinals

SpecSimulate == InitSimulate /\ [][NextSimulate]_vars

(***************************************************************************)
(* Vocabulary of the properties.                                           *)
(***************************************************************************)
Seeding == playoff_seeding(records)

Conferences == {"Eastern", "Western"}

ConferenceTeams(conf) ==
    IF conf = "Eastern" THEN EASTERN_CONFERENCE_TEAMS ELSE WESTERN_CONFERENCE_TEAMS

Opposing(conf) == IF conf = "Eastern" THEN "Western" ELSE "Eastern"

\* the tied groups of both conferences, or the exception raised for them
TiedGroups == [conf \in Conferences |-> _get_tiebreaker_sets(records, ConferenceTeams(conf))]

GroupsReturned(tg) == \A conf \in Conferences : ~Raised(tg[conf])

SeedingOf(sd, conf) ==
    IF conf = "Eastern" THEN sd.val.east_seeding ELSE sd.val.west_seeding

Positions(s, team) == {i \in 1..Len(s) : s[i] = team}

\* a holds a rank and b holds no rank before a's first rank, or b holds none
RankedAbove(s, a, b) == \A j \in Positions(s, b) : \E i \in Positions(s, a) : i < j

RECURSIVE SumAgainst(_, _, _)
SumAgainst(team, opponents, field) ==
    IF opponents = {} THEN 0
    ELSE LET o == CHOOSE x \in opponents : TRUE
         IN  records[team].win_loss_by_team[o][field]
             + SumAgainst(team, opponents \ {o}, field)

\* the team's record in its games against a set of opponents
RecordAgainst(team, opponents) ==
    [wins |-> SumAgainst(team, opponents, "wins"),
     losses |-> SumAgainst(team, opponents, "losses")]

Played(r) == r.wins + r.losses > 0

BetterRecord(x, y) ==
    Played(x) /\ Played(y) /\ y.wins * (x.wins + x.losses) < x.wins * (y.wins + y.losses)

EqualRecord(x, y) ==
    Played(x) /\ Played(y) /\ y.wins * (x.wins + x.losses) = x.wins * (y.wins + y.losses)

OneDivision(group) == \A a, b \in SeqToSet(group) : division[a] = division[b]

(***************************************************************************)
(* C1.  For every list of games playoff_seeding returns, for each          *)
(* conference, exactly 10 teams of that conference, all different.         *)
(***************************************************************************)
C1_TenDistinctTeamsPerConference ==
    LET sd == Seeding
    IN  /\ ~Raised(sd)
        /\ \A conf \in Conferences :
              LET s == SeedingOf(sd, conf)
              IN  /\ Len(s) = 10
                  /\ \A i \in 1..Len(s) : conference[s[i]] = conf
                  /\ \A i, j \in 1..Len(s) : i # j => s[i] # s[j]

(***************************************************************************)
(* C2.  In a returned seeding, a team with a better record in its games    *)
(* against the other members of its tied group than another member is      *)
(* ranked above that member.                                               *)
(***************************************************************************)
C2_BetterHeadToHeadRanksAbove ==
    LET sd == Seeding
        tg == TiedGroups
    IN  ~Raised(sd) =>
        \A conf \in Conferences : \A k \in 1..Len(tg[conf].val) :
            LET members == SeqToSet(tg[conf].val[k])
            IN  \A a, b \in members :
                    BetterRecord(RecordAgainst(a, members \ {a}),
                                 RecordAgainst(b, members \ {b}))
                    => RankedAbove(SeedingOf(sd, conf), a, b)

(***************************************************************************)
(* C3.  In a returned seeding no team has a lexicographically smaller key  *)
(* than a team ranked below it; the key is: overall record, record against *)
(* the members of its tied group, division record if the group is in one   *)
(* division, conference record, record against the playoff teams of its    *)
(* conference, record against those of the other conference, point         *)
(* differential.                                                           *)
(***************************************************************************)
KeyRecord(value) == [kind |-> "record", wl |-> value, int |-> 0]

KeyInt(value) == [kind |-> "int", wl |-> WinLossRecord, int |-> value]

GroupOf(groups, team) ==
    groups[CHOOSE k \in 1..Len(groups) : team \in SeqToSet(groups[k])]

\* the key of a team of the tied groups tg of conference conf
SeedingKey(tg, conf, team) ==
    LET group == GroupOf(tg[conf].val, team)
        own == SeqToSet(Chain(tg[conf].val))
        opp == SeqToSet(Chain(tg[Opposing(conf)].val))
    IN  << KeyRecord(records[team].overall_win_loss),
           KeyRecord(RecordAgainst(team, SeqToSet(group) \ {team})) >>
        \o (IF OneDivision(group)
            THEN << KeyRecord(records[team].division_win_loss) >> ELSE << >>)
        \o << KeyRecord(records[team].conference_win_loss),
              KeyRecord(RecordAgainst(team, own \ {team})),
              KeyRecord(RecordAgainst(team, opp)),
              KeyInt(records[team].point_differential) >>

KeyComponentSame(x, y) ==
    IF x.kind = "int" THEN x.int = y.int ELSE EqualRecord(x.wl, y.wl)

KeyComponentLess(x, y) ==
    IF x.kind = "int" THEN x.int < y.int ELSE BetterRecord(y.wl, x.wl)

KeyLess(k1, k2) ==
    \E n \in 1..Len(k1) :
        /\ n <= Len(k2)
        /\ \A m \in 1..(n - 1) : KeyComponentSame(k1[m], k2[m])
        /\ KeyComponentLess(k1[n], k2[n])

C3_SeedingOrderedByKey ==
    LET sd == Seeding
        tg == TiedGroups
    IN  ~Raised(sd) =>
        \A conf \in Conferences :
            LET s == SeedingOf(sd, conf)
            IN  \A i, j \in 1..Len(s) :
                    i < j => ~KeyLess(SeedingKey(tg, conf, s[i]), SeedingKey(tg, conf, s[j]))

(***************************************************************************)
(* C4 as stated.  Two teams of the returned groups of a conference are in  *)
(* one group exactly if their wins are equal and their losses are equal.   *)
(***************************************************************************)
SameGroup(groups, a, b) ==
    \E k \in 1..Len(groups) : a \in SeqToSet(groups[k]) /\ b \in SeqToSet(groups[k])

Names(tuple) == [i \in 1..Len(tuple) |-> tuple[i].name]

WithoutDivision(tuple) == SelectSeq(tuple, LAMBDA c : c.name # "division")

\* the group ranked on its members' tuples with the division record removed
RankedWithoutDivision(group, own, opp) ==
    LET members == SeqToSet(group)
        tuple_of == [t \in members |->
                        WithoutDivision(_tiebreaker_tuple(records, t, group, own, opp))]
        lt == [p \in members \X members |->
                  TupleTeamLt(tuple_of[p[1]], p[1], tuple_of[p[2]], p[2])]
    IN  SortedReverse(group, lt)

C5_DivisionComponentAllOrNone ==
    LET tg == TiedGroups
    IN  GroupsReturned(tg) =>
        \A conf \in Conferences : \A k \in 1..Len(tg[conf].val) :
            LET group == tg[conf].val[k]
                own == Chain(tg[conf].val)
                opp == Chain(tg[Opposing(conf)].val)
                tuple_of == [t \in SeqToSet(group) |->
                                _tiebreaker_tuple(records, t, group, own, opp)]
            IN  /\ \A t \in SeqToSet(group) :
                       (\E i \in 1..Len(tuple_of[t]) : tuple_of[t][i].name = "division")
                       <=> OneDivision(group)
                /\ \A t, u \in SeqToSet(group) : Names(tuple_of[t]) = Names(tuple_of[u])
                /\ ~OneDivision(group) =>
                       _break_tie(records, group, own, opp)
                       = RankedWithoutDivision(group, own, opp)

\* a seeding is returned for a group of three teams, two of one division
\* and one of another
C5_Witness ==
    LET sd == Seeding
        tg == TiedGroups
    IN  /\ ~Raised(sd)
        /\ \E conf \in Conferences : \E k \in 1..Len(tg[conf].val) :
               \E a, b, c \in SeqToSet(tg[conf].val[k]) :
                   /\ a # b /\ division[a] = division[b] /\ division[c] # division[a]
                   /\ {a, b, c} \subseteq SeqToSet(SeedingOf(sd, conf))

(***************************************************************************)
(* C6.  If two different teams of a tied group are equal on every          *)
(* component of their tuples, playoff_seeding still returns a seeding.     *)
(***************************************************************************)
ComponentsIdentical(x, y) ==
    IF x.kind = "int" THEN x.int = y.int
    ELSE x.wl.wins * (y.wl.wins + y.wl.losses) = y.wl.wins * (x.wl.wins + x.wl.losses)
         /\ (Played(x.wl) <=> Played(y.wl))

TuplesIdentical(t1, t2) ==
    /\ Len(t1) = Len(t2)
    /\ \A i \in 1..Len(t1) : ComponentsIdentical(t1[i], t2[i])

FullyTiedPair ==
    LET tg == TiedGroups
    IN  /\ GroupsReturned(tg)
        /\ \E conf \in Conferences : \E k \in 1..Len(tg[conf].val) :
               LET group == tg[conf].val[k]
                   own == Chain(tg[conf].val)
                   opp == Chain(tg[Opposing(conf)].val)
               IN  \E a, b \in SeqToSet(group) :
                       /\ a # b
                       /\ TuplesIdentical(_tiebreaker_tuple(records, a, group, own, opp),
                                          _tiebreaker_tuple(records, b, group, own, opp))

C6_FullTieDoesNotRaise == FullyTiedPair => ~Raised(Seeding)

(***************************************************************************)
(* C7.  For an Eastern and a Western team that have each completed a game, *)
(* determine_finals_home_court_advantage returns one of the two teams and  *)
(* does not raise; when their overall, head-to-head and conference records *)
(* are equal it returns the team with the greater point differential.      *)
(***************************************************************************)
C7_HomeCourtReturnsATeam ==
    \A team1 \in SeqToSet(EASTERN_CONFERENCE_TEAMS) :
    \A team2 \in SeqToSet(WESTERN_CONFERENCE_TEAMS) :
        (num_games(records[team1]) > 0 /\ num_games(records[team2]) > 0) =>
        LET r == determine_finals_home_court_advantage(records, team1, team2)
            r1 == records[team1]
            r2 == records[team2]
            same(x, y) == x.wins * (y.wins + y.losses) = y.wins * (x.wins + x.losses)
        IN  /\ ~Raised(r)
            /\ r.val \in {team1, team2}
            /\ ( /\ same(r1.overall_win_loss, r2.overall_win_loss)
                 /\ same(r1.win_loss_by_team[team2], r2.win_loss_by_team[team1])
                 /\ same(r1.conference_win_loss, r2.conference_win_loss)
                 /\ r1.point_differential # r2.point_differential )
               => r.val = (IF r1.point_differential > r2.point_differential
                           THEN team1 ELSE team2)

(***************************************************************************)
(* C8.  Applying to the records a completed game that was applied before   *)
(* leaves every record as it was.                                          *)
(***************************************************************************)
C8_ReplayLeavesRecords ==
    [][ ( /\ games' = Append(games, games'[Len(games')])
          /\ completed(games'[Len(games')])
          /\ \E i \in 1..Len(games) : games[i].row = games'[Len(games')].row )
        => records' = records ]_vars

(***************************************************************************)
(* C9.  While the constructor reads a list in which every game occurs      *)
(* once, every team's overall wins + losses is the number of completed     *)
(* games read so far in which it is the home or the away team.             *)
(***************************************************************************)
CompletedGamesOf(team) ==
    {i \in 1..Len(games) :
        completed(games[i]) /\ team \in {games[i].home_team, games[i].away_team}}

C9_EachGameAppliedOnce ==
    \A team \in TeamSet :
        num_games(records[team]) = Cardinality(CompletedGamesOf(team))

\* the list read so far holds a game without a result and a team with
\* two completed games
C9_Witness ==
    /\ \E i \in 1..Len(games) : ~completed(games[i])
    /\ \E team \in TeamSet : Cardinality(CompletedGamesOf(team)) >= 2
    /\ \E i \in 1..Len(games) :
           completed(games[i]) /\ num_games(records[games[i].away_team]) >= 1

(***************************************************************************)
(* C10.  For every completed game the point differentials of the two teams *)
(* are opposite and exactly one of the two teams won.                      *)
(***************************************************************************)
C10_GameSymmetry ==
    \A i \in 1..Len(games) :
        completed(games[i]) =>
        LET g == games[i]
            dh == get_point_differential(g, g.home_team)
            da == get_point_differential(g, g.away_team)
            wh == was_won_by(g, g.home_team)
            wa == was_won_by(g, g.away_team)
        IN  /\ ~Raised(dh) /\ ~Raised(da) /\ ~Raised(wh) /\ ~Raised(wa)
            /\ dh.val = 0 - da.val
            /\ wh.val # wa.val

\* the list holds a game won at home, a game won away and a game with
\* equal scores
C10_Witness ==
    /\ \E i \in 1..Len(games) :
           completed(games[i]) /\ games[i].points[games[i].home_team] > games[i].points[games[i].away_team]
    /\ \E i \in 1..Len(games) :
           completed(games[i]) /\ games[i].points[games[i].home_team] < games[i].points[games[i].away_team]
    /\ \E i \in 1..Len(games) :
           completed(games[i]) /\ games[i].points[games[i].home_team] = games[i].points[games[i].away_team]

(***************************************************************************)
(* C11.  A call of Record.update on the record of team T with a completed  *)
(* game between T and O adds one win (if T is the winner) or one loss to   *)
(* T's overall record and to its record against O, adds the same to the    *)
(* conference record exactly if T and O are in one conference and to the   *)
(* division record exactly if they are in one division, adds T's points    *)
(* minus O's points to the point differential, and changes nothing else.   *)
(***************************************************************************)
\* the game of `updated' involves its team and has a result
UpdateOfParticipant(updated) ==
    /\ updated.op = "Record.update"
    /\ updated.game.points # << >>
    /\ updated.team \in {updated.game.home_team, updated.game.away_team}

PlusOne(wl, won) ==
    IF won THEN [wins |-> wl.wins + 1, losses |-> wl.losses]
    ELSE [wins |-> wl.wins, losses |-> wl.losses + 1]

C11_UpdateAddsOneGame ==
    [][ UpdateOfParticipant(call') =>
        LET T == call'.team
            g == call'.game
            O == IF g.home_team = T THEN g.away_team ELSE g.home_team
            won == g.winner = T
            before == records[T]
            after == records'[T]
        IN  /\ call'.result.err = ""
            /\ after.team = T
            /\ after.overall_win_loss = PlusOne(before.overall_win_loss, won)
            /\ after.win_loss_by_team[O] = PlusOne(before.win_loss_by_team[O], won)
            /\ \A X \in DOMAIN before.win_loss_by_team :
                   X # O => after.win_loss_by_team[X] = before.win_loss_by_team[X]
            /\ after.conference_win_loss =
                   IF conference[T] = conference[O]
                   THEN PlusOne(before.conference_win_loss, won)
                   ELSE before.conference_win_loss
            /\ after.division_win_loss =
                   IF division[T] = division[O]
                   THEN PlusOne(before.division_win_loss, won)
                   ELSE before.division_win_loss
            /\ after.point_differential =
                   before.point_differential + g.points[T] - g.points[O]
            /\ \A X \in DOMAIN records : X # T => records'[X] = records[X]
      ]_vars

\* a second game was added to the record of a team that already has one:
\* against a team of its conference and of another division
C11_Witness ==
    /\ UpdateOfParticipant(call)
    /\ call.result.err = ""
    /\ records[call.team].overall_win_loss.wins + records[call.team].overall_win_loss.losses = 2
    /\ LET O == IF call.game.home_team = call.team
                THEN call.game.away_team ELSE call.game.home_team
       IN  conference[O] = conference[call.team] /\ division[O] # division[call.team]

(***************************************************************************)
(* C12.  head_to_head_record over a list of teams is the sum of the        *)
(* team's records against the different teams of the list, each counted    *)
(* once: checked on the lists the tiebreak passes to it, the tied groups   *)
(* and the playoff teams of a conference.                                  *)
(***************************************************************************)
C12_HeadToHeadCountsEachTeamOnce ==
    LET tg == TiedGroups
    IN  \A conf \in Conferences :
            ~Raised(tg[conf]) =>
            LET lists == SeqToSet(tg[conf].val) \cup {Chain(tg[conf].val)}
            IN  \A teams \in lists : \A team \in TeamSet :
                    head_to_head_record(records[team], teams)
                        = RecordAgainst(team, SeqToSet(teams))

(***************************************************************************)
(* C13.  A call of Record.update with a game that has no result, or on the *)
(* record of a team that did not play in the game, raises AssertionError   *)
(* and leaves every record as it was.                                      *)
(***************************************************************************)
C13_RejectedUpdateChangesNothing ==
    [][ (call'.op = "Record.update" /\ ~UpdateOfParticipant(call')) =>
        /\ call'.result.err = "AssertionError"
        /\ records' = records
      ]_vars

\* rejected: a completed game of two other teams, on a record that already
\* holds a game
C13_Witness ==
    /\ call.op = "Record.update"
    /\ call.result.err = "AssertionError"
    /\ call.game.points # << >>
    /\ call.team \notin {call.game.home_team, call.game.away_team}
    /\ records[call.team].overall_win_loss.wins + records[call.team].overall_win_loss.losses = 1

(***************************************************************************)
(* C14.  get(name, birthdate): no player of the list has the name:         *)
(* InvalidPlayerException; the name has two or more birthdates and none is *)
(* passed: AmbiguousPlayerException; a birthdate is passed and a player of *)
(* the name has it: that player; a birthdate is passed and no player of    *)
(* the name has it: InvalidPlayerException.  A player returned has the     *)
(* name asked for and, when one is passed, the birthdate asked for.        *)
(***************************************************************************)
\* the players of the list with a name
Named(name) == {p \in SeqToSet(AllPlayers) : p.name = name}

BirthdatesOf(name) == {p.birthdate : p \in Named(name)}

C14_GetFollowsTable ==
    call.op = "get" =>
    LET named == Named(call.name)
        matching == {p \in named : p.birthdate = call.birthdate}
        r == call.result
    IN  /\ named = {} => r.err = "InvalidPlayerException"
        /\ (Cardinality(BirthdatesOf(call.name)) >= 2 /\ call.birthdate = NoBirthdate)
               => r.err = "AmbiguousPlayerException"
        /\ (call.birthdate # NoBirthdate /\ matching # {})
               => (r.err = "" /\ matching = {r.val})
        /\ (call.birthdate # NoBirthdate /\ named # {} /\ matching = {})
               => r.err = "InvalidPlayerException"
        /\ r.err = "" =>
               /\ r.val.name = call.name
               /\ call.birthdate # NoBirthdate => r.val.birthdate = call.birthdate

\* of two players of one name the one stored second is returned for its
\* birthdate
C14_Witness ==
    /\ call.op = "get"
    /\ call.result.err = ""
    /\ Cardinality(Named(call.name)) = 2
    /\ call.result.val = AllPlayers[2]
    /\ call.birthdate = AllPlayers[2].birthdate

(***************************************************************************)
(* C15 as stated.  For a name with exactly one birthdate on record get     *)
(* returns its player whatever birthdate argument is passed.               *)
(***************************************************************************)
C15_SoleBirthdateAnyArgument ==
    (call.op = "get" /\ Cardinality(BirthdatesOf(call.name)) = 1) =>
        (call.result.err = "" /\ Named(call.name) = {call.result.val})

(***************************************************************************)
(* C15 amended.  For a name with exactly one birthdate on record get       *)
(* returns its player when no birthdate or that birthdate is passed, and   *)
(* raises InvalidPlayerException when another birthdate is passed.         *)
(***************************************************************************)
C15_SoleBirthdateMatchingOrNone ==
    (call.op = "get" /\ Cardinality(BirthdatesOf(call.name)) = 1) =>
        IF call.birthdate \in BirthdatesOf(call.name) \cup {NoBirthdate}
        THEN call.result.err = "" /\ Named(call.name) = {call.result.val}
        ELSE call.result.err = "InvalidPlayerException"

C15_Witness ==
    /\ call.op = "get"
    /\ Cardinality(BirthdatesOf(call.name)) = 1
    /\ call.birthdate = NoBirthdate
    /\ call.result.err = ""

(***************************************************************************)
(* C16.  normalize_player_name returns a string for every string.          *)
(***************************************************************************)
C16_NormalizeNeverRaises ==
    call.op = "normalize_player_name" => call.result.err = ""

(***************************************************************************)
(* C17.  A name returned by normalize_player_name has no period; a letter  *)
(* after an apostrophe is lower-case if it is the last character of its    *)
(* word and upper-case otherwise; "B.J. Johnson" gives "BJ Johnson",       *)
(* "Amar'e Stoudemire" is kept and "o'brien Jones" gives "O'Brien Jones".  *)
(***************************************************************************)
IsLetter(c) == c \in SeqToSet(LowerLetters) \cup SeqToSet(UpperLetters)

C17_PeriodsAndApostrophes ==
    (call.op = "normalize_player_name" /\ call.result.err = "") =>
    LET out == call.result.val
    IN  /\ \A i \in 1..Len(out) : out[i] # "."
        /\ \A i \in 1..(Len(out) - 1) :
               (out[i] = "'" /\ IsLetter(out[i + 1])) =>
                   IF i + 1 = Len(out) \/ IsSpace(out[i + 2])
                   THEN out[i + 1] \in SeqToSet(LowerLetters)
                   ELSE out[i + 1] \in SeqToSet(UpperLetters)
        /\ Str(call.arg) = "B.J. Johnson" => Str(out) = "BJ Johnson"
        /\ Str(call.arg) = "Amar'e Stoudemire" => Str(out) = "Amar'e Stoudemire"
        /\ Str(call.arg) = "o'brien Jones" => Str(out) = "O'Brien Jones"

(***************************************************************************)
(* C18.  A list returned by get_candidate_matches holds each player once   *)
(* and is, as a set: all players of the normalized name if the name has no *)
(* parenthesized part and no '/' word and that name is in the directory;   *)
(* otherwise the players with the greatest number of the normalized        *)
(* fragments of the query (its words outside parentheses and its           *)
(* parenthesized strings) among the words of their name, and no player if  *)
(* no fragment is a word of any name.                                      *)
(***************************************************************************)
RefFragments(name) ==
    {normalize_player_name(t).val :
        t \in SeqToSet(split(remove_parenthesized_strs(name)))
              \cup SeqToSet(extract_parenthesized_strs(name))}

RefScore(p, name) ==
    Cardinality({f \in RefFragments(name) : f \in SeqToSet(split(p.name))})

RefPlain(name) ==
    /\ extract_parenthesized_strs(name) = << >>
    /\ << "/" >> \notin SeqToSet(split(remove_parenthesized_strs(name)))

RefMatches(name) ==
    IF RefPlain(name) /\ Named(normalize_player_name(name).val) # {}
    THEN Named(normalize_player_name(name).val)
    ELSE {p \in SeqToSet(AllPlayers) :
             /\ RefScore(p, name) > 0
             /\ \A q \in SeqToSet(AllPlayers) : RefScore(q, name) <= RefScore(p, name)}

C18_CandidatesAreTheBestScored ==
    (call.op = "get_candidate_matches" /\ call.result.err = "") =>
        /\ SeqToSet(call.result.val) = RefMatches(call.name)
        /\ Cardinality(SeqToSet(call.result.val)) = Len(call.result.val)

(***************************************************************************)
(* C19.  After any calls of get and get_candidate_matches the name map and *)
(* the fragment index are as the constructor left them.                    *)
(***************************************************************************)
C19_QueriesLeaveTheIndex ==
    /\ _lookup = PlayerDirectory.val.lookup
    /\ _fragments_lookup = PlayerDirectory.val.fragments

(***************************************************************************)
(* C20.  Team.parse returns a team only for a string that is, ignoring     *)
(* case, an abbreviation of the catalog or of the alias table, or that is  *)
(* exactly the nickname or the full name of a team; for any other string   *)
(* it raises TeamNameParseError carrying the string as it was passed.      *)
(* Every alias stands for an abbreviation of the catalog.                  *)
(***************************************************************************)
CatalogTeams == {AllCatalog[i].abbrev : i \in 1..Len(AllCatalog)}

Recognized(s) ==
    \/ Str(upper(s)) \in CatalogTeams \cup DOMAIN alternative_abbrevs
    \/ \E team \in CatalogTeams : Str(s) = nickname(team) \/ Str(s) = full_name(team)

C20_ParseReturnsOnlyKnownTeams ==
    /\ \A alias \in DOMAIN alternative_abbrevs :
           Str(alternative_abbrevs[alias]) \in CatalogTeams
    /\ call.op = "Team.parse" =>
           /\ call.result.err = "" =>
                  (Recognized(call.arg) /\ call.result.val \in CatalogTeams)
           /\ ~Recognized(call.arg) =>
                  /\ call.result.err = "TeamNameParseError"
                  /\ call.result.val = Str(call.arg)

\* a string with lower-case letters that is no team is rejected as passed
C20_Witness ==
    /\ call.op = "Team.parse"
    /\ call.result.err = "TeamNameParseError"
    /\ Str(upper(call.arg)) # Str(call.arg)
    /\ Len(call.arg) = 3

(***************************************************************************)
(* C24.  In a returned seeding, for each conference: the groups are whole  *)
(* groups of equal overall record, taken best first until they hold at     *)
(* least 10 entries, the groups before the last hold fewer than 10; the    *)
(* seeding is the first 10 entries of the groups ranked one by one and     *)
(* concatenated; and a team of the conference whose overall record is      *)
(* strictly better than a seeded team's is seeded.                         *)
(***************************************************************************)
AllButLast(s) == SubSeq(s, 1, Len(s) - 1)

\* the groups, each ranked by the tiebreakers over the whole groups
RankedGroups(groups, own, opp) ==
    [k \in 1..Len(groups) |-> _break_tie(records, groups[k], own, opp).val]

RECURSIVE SumOver(_, _)
SumOver(S, f) ==
    IF S = {} THEN 0
    ELSE LET x == CHOOSE y \in S : TRUE IN f[x] + SumOver(S \ {x}, f)

CompletedGames == Cardinality({i \in 1..Len(games) : completed(games[i])})

C29_RecordsConsistent ==
    /\ \A team \in TeamSet :
           LET r == records[team]
           IN  /\ r.overall_win_loss = RecordAgainst(team, TeamSet \ {team})
               /\ r.win_loss_by_team[team] = WinLossRecord
               /\ \A field \in {"wins", "losses"} :
                      /\ r.division_win_loss[field] <= r.conference_win_loss[field]
                      /\ r.conference_win_loss[field] <= r.overall_win_loss[field]
    /\ SumOver(TeamSet, [t \in TeamSet |-> records[t].overall_win_loss.wins]) = CompletedGames
    /\ SumOver(TeamSet, [t \in TeamSet |-> records[t].overall_win_loss.losses]) = CompletedGames
    /\ SumOver(TeamSet, [t \in TeamSet |-> records[t].point_differential]) = 0

\* a team has won in its division and in the rest of its conference, a team
\* has played in its conference and against the other one; one row of the
\* list has equal scores and one has no result
C29_Witness ==
    /\ \E team \in TeamSet :
           LET r == records[team]
           IN  /\ 0 < r.division_win_loss.wins
               /\ r.division_win_loss.wins < r.conference_win_loss.wins
    /\ \E team \in TeamSet :
           LET r == records[team]
           IN  /\ 0 < r.conference_win_loss.losses
               /\ r.conference_win_loss.losses < r.overall_win_loss.losses
    /\ \E i \in 1..Len(games) :
           /\ completed(games[i])
           /\ games[i].points[games[i].home_team] = games[i].points[games[i].away_team]
    /\ \E i \in 1..Len(games) : ~completed(games[i])

(***************************************************************************)
(* C28.  For every team T of TEAMS, Team.parse of T's abbreviation, of     *)
(* T's full name and of T's nickname returns T.                            *)
(***************************************************************************)
C28_ParseRoundTripsTheCatalog ==
    \A team \in TeamSet :
        (call.op = "Team.parse"
         /\ call.arg \in {Spelling[team].abbrev, Spelling[team].full_name,
                          NicknameSpelling(team)})
        => call.result = Ok(team)

(***************************************************************************)
(* C21.  Two games with the same date, home team and away team are equal   *)
(* and have equal hashes, whatever their scores; two games that differ in  *)
(* date, home team or away team are not equal; a set of games holds one    *)
(* element for each (date, home team, away team) added to it.              *)
(***************************************************************************)
GameKey(g) ==
    <<IF g.class = "GameData" THEN g.dt ELSE g.date, g.home_team, g.away_team>>

Compares == call.op \in {"Game.__eq__", "GameData.__eq__"}

C21_GamesEqualByDateAndTeams ==
    Compares =>
        /\ call.result = (GameKey(call.a) = GameKey(call.b))
        /\ GameKey(call.a) = GameKey(call.b) => call.hashes[1] = call.hashes[2]
        /\ Len(call.set) = Cardinality({GameKey(call.a), GameKey(call.b)})

(***************************************************************************)
(* C23.  A fetch that finds no valid cached copy and whose request fails   *)
(* (requests.get raises, or the status is an error status) raises; it      *)
(* leaves every cached file as it was, none created and none modified, and *)
(* the same fetch made next has no valid cached copy either.               *)
(***************************************************************************)
\* this step is a call of fetch
FetchStep == calls' = calls + 1 /\ call'.op = "web.fetch"

\* the fetch of this step had a valid cached copy
HadValidCopy ==
    check_cached_file(cache_files, today, url_to_cached_file(call'.url),
                      call'.force_refresh, call'.stale_is_ok, call'.stale_window_in_days)

RequestFailed(response) == response.error # "" \/ Raised(raise_for_status(response))

C23_FailedFetchLeavesTheCache ==
    [][(FetchStep /\ ~HadValidCopy /\ RequestFailed(call'.response)) =>
          /\ Raised(call'.result)
          /\ cache_files' = cache_files
          /\ ~check_cached_file(cache_files', today', url_to_cached_file(call'.url),
                                call'.force_refresh, call'.stale_is_ok,
                                call'.stale_window_in_days)]_vars

\* a fetch has raised HTTPError while a file written on an earlier day is
\* the cached file of its URL
C23_Witness ==
    /\ call.op = "web.fetch"
    /\ call.result = Raise("HTTPError")
    /\ url_to_cached_file(call.url) \in DOMAIN cache_files
    /\ cache_files[url_to_cached_file(call.url)].mdate < today

(***************************************************************************)
(* C27.  fetch returns the text of the cached file, without a request,     *)
(* exactly if force_refresh is false, the file exists and stale_is_ok is   *)
(* set or the file's date is later than today minus stale_window_in_days;  *)
(* otherwise it makes the request and, if that succeeds, writes the text   *)
(* of the response to the cached file and returns it.  The same fetch made *)
(* right after a successful request (on the same day), with force_refresh  *)
(* false and a window of at least one day, returns the same text and makes *)
(* no request.                                                             *)
(***************************************************************************)
ServedFromCache ==
    LET cached_file == url_to_cached_file(call'.url)
    IN  /\ ~call'.force_refresh
        /\ cached_file \in DOMAIN cache_files
        /\ (call'.stale_is_ok
            \/ cache_files[cached_file].mdate > today - call'.stale_window_in_days)

SameFetch(c1, c2) ==
    /\ c1.op = "web.fetch" /\ c2.op = "web.fetch"
    /\ c1.url = c2.url /\ c1.force_refresh = c2.force_refresh
    /\ c1.stale_is_ok = c2.stale_is_ok
    /\ c1.stale_window_in_days = c2.stale_window_in_days

C27_FetchServesFreshCopies ==
    [][FetchStep =>
          LET cached_file == url_to_cached_file(call'.url)
          IN  /\ call'.requested <=> ~ServedFromCache
              /\ ServedFromCache =>
                     /\ cache_files' = cache_files
                     /\ call'.result = Ok(ReadText(cache_files[cached_file].data))
              /\ (call'.requested /\ ~Raised(call'.result)) =>
                     /\ call'.result = Ok(call'.response.text)
                     /\ cache_files'[cached_file]
                            = [data |-> call'.response.text, mdate |-> today]
                     /\ \A f \in DOMAIN cache_files \ {cached_file} :
                            f \in DOMAIN cache_files' /\ cache_files'[f] = cache_files[f]
              /\ (/\ SameFetch(call, call')
                  /\ call.requested /\ ~Raised(call.result)
                  /\ cache_files[cached_file].mdate = today
                  /\ ~call'.force_refresh
                  /\ call'.stale_window_in_days >= 1) =>
                     /\ ~call'.requested
                     /\ call'.result = call.result]_vars

(***************************************************************************)
(* The simulation: the calls of simulate_play_in_tournament and of         *)
(* simulate_playoff_round made by the running trial, or by the last one.   *)
(***************************************************************************)
PlayIns ==
    IF trial # NoTrial THEN trial.play_ins
    ELSE IF call.op = "simulate" THEN call.play_ins ELSE << >>

Rounds ==
    IF trial # NoTrial THEN trial.rounds
    ELSE IF call.op = "simulate" THEN call.rounds ELSE << >>

\* a game between home and away
Between(game, home, away) == game.home_team = home /\ game.away_team = away

\* what C25 says of one call of simulate_play_in_tournament
PlayInAsDescribed(p) ==
    LET game_7_v_8 == p.games[1]
        game_9_v_10 == p.games[2]
        eighth_seed_game == p.games[3]
    IN  /\ Len(p.games) = 3
        /\ Len(p.result) = 8
        /\ Cardinality(SeqToSet(p.result)) = 8
        /\ Take(p.result, 6) = Take(p.seeding, 6)
        /\ Between(game_7_v_8, p.seeding[7], p.seeding[8])
        /\ Between(game_9_v_10, p.seeding[9], p.seeding[10])
        /\ Between(eighth_seed_game, game_7_v_8.loser, game_9_v_10.winner)
        /\ p.result[7] = game_7_v_8.winner
        /\ p.result[8] = eighth_seed_game.winner
        /\ p.result[7] \notin {p.seeding[9], p.seeding[10]}

(***************************************************************************)
(* C25: simulate_play_in_tournament on a seeding of 10 plays three games   *)
(* and returns 8 different teams: seeds 1 to 6 unchanged, the 7th seed the *)
(* winner of the game of seeds 7 and 8, the 8th seed the winner of the     *)
(* game between the loser of that game, at home, and the winner of the     *)
(* game of seeds 9 and 10; seeds 9 and 10 never become the 7th seed.       *)
(***************************************************************************)
C25_PlayInFixesSeedsSevenAndEight ==
    \A k \in 1..Len(PlayIns) :
        Len(PlayIns[k].seeding) = 10 => PlayInAsDescribed(PlayIns[k])

\* the games among the first k of a series that a team won
WinsIn(series, team, k) == Cardinality({g \in 1..k : series[g].winner = team})

\* what C26 says of series i of a round
SeriesAsDescribed(r, i) ==
    LET n == Len(r.teams)
        top == r.teams[i]
        bot == r.teams[n + 1 - i]
        series == r.series[i]
        last == Len(series)
    IN  /\ last \in 4..7
        /\ \A g \in 1..last :
              IF g \in {1, 2, 5, 7} THEN Between(series[g], top, bot)
              ELSE Between(series[g], bot, top)
        /\ \A g \in 1..(last - 1) :
              WinsIn(series, top, g) < 4 /\ WinsIn(series, bot, g) < 4
        /\ \/ WinsIn(series, top, last) = 4 /\ WinsIn(series, bot, last) < 4
           \/ WinsIn(series, bot, last) = 4 /\ WinsIn(series, top, last) < 4
        /\ r.win_counts[top] = WinsIn(series, top, last)
        /\ r.win_counts[bot] = WinsIn(series, bot, last)

\* what C26 says of one call of simulate_playoff_round
RoundAsDescribed(r) ==
    LET n == Len(r.teams)
        won == {t \in SeqToSet(r.teams) : r.win_counts[t] = 4}
    IN  /\ Len(r.series) = n \div 2
        /\ \A i \in 1..(n \div 2) : SeriesAsDescribed(r, i)
        /\ Len(r.winners) = n \div 2
        /\ Cardinality(SeqToSet(r.winners)) = n \div 2
        /\ r.winners = Filter(r.teams, [t \in SeqToSet(r.teams) |-> t \in won])

(***************************************************************************)
(* C26: in simulate_playoff_round teams[i] plays teams[n-1-i]; the better  *)
(* seed is at home in games 1, 2, 5 and 7 and the other team in games 3,   *)
(* 4 and 6; a series stops with the first fourth win, so it has 4 to 7     *)
(* games, one team on 4 wins and the other on fewer; the round returns     *)
(* n/2 winners in seed order.                                              *)
(***************************************************************************)
C26_SeriesAreBestOfSeven ==
    \A k \in 1..Len(Rounds) : RoundAsDescribed(Rounds[k])

\* the series of the last trial a team played in: <<round, series>>
SeriesOf(team) ==
    {ks \in UNION {{<<k, i>> : i \in 1..Len(Rounds[k].series)} : k \in 1..Len(Rounds)} :
        LET r == Rounds[ks[1]]
        IN  team \in {r.teams[ks[2]], r.teams[Len(r.teams) + 1 - ks[2]]}}

\* the games a team won in a series
SeriesWins(team, ks) ==
    LET series == Rounds[ks[1]].series[ks[2]]
    IN  WinsIn(series, team, Len(series))

\* the teams of a conference among a set of teams
OfConference(teams, conf) == {t \in teams : conference[t] = conf}

\* what C30 says of the record a trial returned
RecordAsDescribed(playoff_record) ==
    LET counted == DOMAIN playoff_record.win_counts
        total(team) == playoff_record.win_counts[team]
        won(team) == {ks \in SeriesOf(team) : SeriesWins(team, ks) = 4}
        lost(team) == SeriesOf(team) \ won(team)
    IN  /\ Cardinality(counted) = 16
        /\ \A conf \in Conferences : Cardinality(OfConference(counted, conf)) = 8
        /\ counted = SeqToSet(PlayIns[1].result) \cup SeqToSet(PlayIns[2].result)
        /\ \A team \in counted :
              total(team) = SumOver(SeriesOf(team), [ks \in SeriesOf(team) |-> SeriesWins(team, ks)])
        /\ Cardinality({team \in counted : total(team) = 16}) = 1
        /\ \A team \in counted :
              \/ total(team) = 16 /\ Cardinality(won(team)) = 4 /\ lost(team) = {}
              \/ /\ total(team) <= 15
                 /\ Cardinality(lost(team)) = 1
                 /\ \E ks \in lost(team) :
                       /\ SeriesWins(team, ks) < 4
                       /\ total(team) = 4 * Cardinality(won(team)) + SeriesWins(team, ks)

(***************************************************************************)
(* C30: a PlayoffRecord returned by simulate() counts wins for exactly 16  *)
(* teams, the 8 play-in survivors of each conference; the play-in games    *)
(* add to no count; exactly one team has 16 wins, having won 4 series;     *)
(* every other team has 4 wins for each series it won and fewer than 4 in  *)
(* the one series it lost, at most 15.                                     *)
(***************************************************************************)
C30_ReturnedRecordCountsSixteenTeams ==
    (call.op = "simulate" /\ trial = NoTrial /\ ~Raised(call.result))
        => RecordAsDescribed(call.result.val)

\* the predictor's base games and standings are those its constructor built
BaseUnchanged ==
    /\ games = get_games
    /\ records = StandingsOf(InitialRecords, get_games)

====
